---- MODULE Spec2Model ----
(***************************************************************************)
(* Model of the graph conflation and labelling engine of build_map.py:     *)
(* merge_rail_into_trails, add_trailheads, normalize_labels (with          *)
(* normalize_label), merge_nearby_endpoints, add_amenities, filter_nodes.  *)
(*                                                                         *)
(* Text.  A label is a sequence of tokens.  A token is either a whole word *)
(* (a maximal run of \w characters) or one separator character.  Word      *)
(* boundaries (\b) of the regular expressions fall exactly between a word  *)
(* token and a separator token, so the token model decides every match the *)
(* source's patterns decide, for labels made of the words below.  Lengths  *)
(* are counted in characters (TokLen).                                     *)
(*                                                                         *)
(* Geometry.  Coordinates are integers in units of 0.0005 degrees; the     *)
(* source compares sqrt(dx^2+dy^2) with a threshold, the model compares    *)
(* dx^2+dy^2 with the threshold squared.                                   *)
(***************************************************************************)
EXTENDS Integers, Sequences, FiniteSets, TLC

VARIABLES
    pc,         \* position of main(): which pass runs next
    features,   \* data["features"]: the ordered feature collection
    rail,       \* rail["features"]: the rail feature collection (input)
    th_elems,   \* elements Overpass returns to add_trailheads
    am_elems,   \* elements Overpass returns to add_amenities
    overpass,   \* what each mirror does with <<the trailhead query, the amenity query>>
    requests,   \* the requests overpass_query has sent: [query, mirror]
    prev,       \* the feature collection before the pass that ran last
    merge_log,  \* the "Merging endpoint" / "Cascade: absorbing" lines logged
    am_placed,  \* add_amenities: placed, icon_type -> positions, when it ended
    dl,         \* download_osm_data: the server's responses and the call's progress
    parsed,     \* parse_osm_xml: the ways of the file and self.trails
    nl_name,    \* normalize_label: the argument name
    nl_routes,  \* normalize_label: the set route_names
    nl_order,   \* sorted(route_names, key=len, reverse=True) of this run
    nl_out,     \* normalize_label(name, routes)
    nl_out2     \* normalize_label(normalize_label(name, routes), routes)

vars == <<pc, features, rail, th_elems, am_elems, overpass, requests, prev, merge_log,
          am_placed, dl, parsed, nl_name, nl_routes, nl_order, nl_out, nl_out2>>

graphVars == <<features, rail, th_elems, am_elems, overpass, requests, prev, merge_log, am_placed>>
osmVars == <<dl, parsed>>
textVars == <<nl_name, nl_routes, nl_order, nl_out, nl_out2>>

----------------------------------------------------------------------------
(* overpass_query: the mirrors *)

\* len(OVERPASS_MIRRORS)
NumMirrors == 3

\* What a mirror does with a query: it answers with the elements of the
\* area ("ok"), it answers with no elements ("empty"), or urlopen, the
\* decoding or result["elements"] raises ("error").
MirrorKinds == {"ok", "empty", "error"}

AllMirrors(kind) == [k \in 1..NumMirrors |-> kind]

\* overpass_query(query) from mirror k on, when the mirrors behave as resp
\* and the area holds elems: [raised, elements, tried], tried being the
\* number of requests sent.
RECURSIVE QueryFrom(_, _, _)
QueryFrom(resp, elems, k) ==
    IF k > Len(resp) THEN [raised |-> TRUE, elements |-> <<>>, tried |-> Len(resp)]
    ELSE IF resp[k] = "error" THEN QueryFrom(resp, elems, k + 1)
    ELSE [raised |-> FALSE, elements |-> IF resp[k] = "ok" THEN elems ELSE <<>>, tried |-> k]

\* overpass_query that gives up when the first mirror fails
overpass_query_FirstMirrorOnly(resp, elems) ==
    IF resp[1] = "error" THEN [raised |-> TRUE, elements |-> <<>>, tried |-> 1]
    ELSE [raised |-> FALSE, elements |-> IF resp[1] = "ok" THEN elems ELSE <<>>, tried |-> 1]

overpass_query(resp, elems) == QueryFrom(resp, elems, 1)

----------------------------------------------------------------------------
(* Text: tokens *)

\* The characters of the class [\s,.\-&/] of normalize_label.
SepChars == {" ", ",", ".", "-", "&", "/"}

IsWord(t) == t \notin SepChars

\* Number of characters of a token.
TokLen(t) ==
    CASE t \in SepChars -> 1
      [] t \in {"Ab", "or", "at", "OR"} -> 2
      [] t \in {"and", "Lot", "Elm"} -> 3
      [] t \in {"Loop", "Head", "Area", "near", "Park", "loop"} -> 4
      [] t \in {"Trail", "Point", "River", "trail"} -> 5
      [] t \in {"Access"} -> 6
      [] t \in {"Parking", "Audubon"} -> 7
      [] t \in {"Betzwood"} -> 8
      [] t \in {"Trailhead", "trailhead"} -> 9
      [] t \in {"Norristown", "NORRISTOWN"} -> 10
      [] OTHER -> 3

\* str.lower() of a token (re.IGNORECASE compares modulo this).
Lower(t) ==
    CASE t = "Ab" -> "ab"
      [] t = "OR" -> "or"
      [] t = "Lot" -> "lot"
      [] t = "Elm" -> "elm"
      [] t = "Loop" -> "loop"
      [] t = "Head" -> "head"
      [] t = "Area" -> "area"
      [] t = "Park" -> "park"
      [] t = "Trail" -> "trail"
      [] t = "Point" -> "point"
      [] t = "River" -> "river"
      [] t = "Access" -> "access"
      [] t = "Parking" -> "parking"
      [] t = "Audubon" -> "audubon"
      [] t = "Betzwood" -> "betzwood"
      [] t = "Trailhead" -> "trailhead"
      [] t = "Norristown" -> "norristown"
      [] t = "NORRISTOWN" -> "norristown"
      [] OTHER -> t

LowerStr(s) == [i \in 1..Len(s) |-> Lower(s[i])]

RECURSIVE StrLen(_)
StrLen(s) == IF s = <<>> THEN 0 ELSE TokLen(Head(s)) + StrLen(Tail(s))

\* Number of leading tokens of s that belong to cs.
RECURSIVE LeadRun(_, _)
LeadRun(s, cs) ==
    IF s # <<>> /\ Head(s) \in cs THEN 1 + LeadRun(Tail(s), cs) ELSE 0

Reverse(s) == [i \in 1..Len(s) |-> s[Len(s) + 1 - i]]

\* str.strip(chars)
StripChars(s, cs) ==
    LET a == LeadRun(s, cs)
        b == LeadRun(Reverse(s), cs)
    IN  IF a = Len(s) THEN <<>> ELSE SubSeq(s, a + 1, Len(s) - b)

\* str.strip()
Strip(s) == StripChars(s, {" "})

----------------------------------------------------------------------------
(* Text: the regular expressions of normalize_label *)

Min(S) == CHOOSE x \in S : \A y \in S : x <= y

\* s has a word token at position i.
WordAt(s, i) == i \in 1..Len(s) /\ IsWord(s[i])

\* \b between positions i-1 and i of s.
Boundary(s, i) == WordAt(s, i - 1) # WordAt(s, i)

\* The class [\s,\-] around the alternatives of _SUFFIX_RE.
SuffixSepChars == {" ", ",", "-"}

OneWordSuffix == {"trailhead", "parking", "access"}

\* The alternatives w1\s+w2 of _SUFFIX_RE.
TwoWordSuffix == {<<"trail", "head">>, <<"parking", "area">>, <<"parking", "lot">>,
                  <<"access", "point">>, <<"access", "area">>}

\* The positions at which an alternative of _SUFFIX_RE that starts at q can end.
SuffixPhraseEnds(s, q) ==
    {e \in q..Len(s) :
        \/ e = q /\ Lower(s[q]) \in OneWordSuffix
        \/ /\ e > q + 1
           /\ <<Lower(s[q]), Lower(s[e])>> \in TwoWordSuffix
           /\ \A i \in (q + 1)..(e - 1) : s[i] = " "}

\* _SUFFIX_RE matches s from position p to the end of s.
SuffixMatchAt(s, p) ==
    \E q \in p..Len(s) :
        /\ \A i \in p..(q - 1) : s[i] \in SuffixSepChars
        /\ Boundary(s, q)
        /\ \E e \in SuffixPhraseEnds(s, q) :
              /\ Boundary(s, e + 1)
              /\ \A i \in (e + 1)..Len(s) : s[i] \in SuffixSepChars

\* _SUFFIX_RE.sub("", s): the leftmost match is removed; the pattern is
\* anchored at the end, so there is at most one.
SUFFIX_RE_sub(s) ==
    LET starts == {p \in 1..Len(s) : SuffixMatchAt(s, p)}
    IN  IF starts = {} THEN s ELSE SubSeq(s, 1, Min(starts) - 1)

\* r"\b" + re.escape(rname) + r"\b" matches s at position i, ignoring case.
RouteMatchAt(s, r, i) ==
    /\ r # <<>>
    /\ i + Len(r) - 1 <= Len(s)
    /\ \A k \in 1..Len(r) : Lower(s[i + k - 1]) = Lower(r[k])
    /\ (IsWord(r[1]) = ~WordAt(s, i - 1))
    /\ (IsWord(r[Len(r)]) = ~WordAt(s, i + Len(r)))

\* re.sub(r"\b" + re.escape(r) + r"\b", "", s, flags=re.IGNORECASE), from i on.
RECURSIVE RemoveRouteFrom(_, _, _)
RemoveRouteFrom(s, r, i) ==
    IF i > Len(s) THEN <<>>
    ELSE IF RouteMatchAt(s, r, i) THEN RemoveRouteFrom(s, r, i + Len(r))
    ELSE <<s[i]>> \o RemoveRouteFrom(s, r, i + 1)

RemoveRoute(s, r) == RemoveRouteFrom(s, r, 1)

\* re.sub(r"[\s,.\-&/]+", " ", s): every run of separators becomes one blank.
RECURSIVE CollapseSeps(_)
CollapseSeps(s) ==
    IF s = <<>> THEN <<>>
    ELSE IF Head(s) \in SepChars
         THEN <<" ">> \o CollapseSeps(SubSeq(s, LeadRun(s, SepChars) + 1, Len(s)))
         ELSE <<Head(s)>> \o CollapseSeps(Tail(s))

\* candidate_clean of normalize_label.
CandidateClean(s) == Strip(CollapseSeps(s))

ConnectorWords == {"and", "or", "at", "near"}
ConnectorChars == {"&", "-", ",", "/"}

IsConnector(t) == Lower(t) \in ConnectorWords \/ t \in ConnectorChars

\* Number of leading tokens the first alternative of _CONNECTOR_RE matches:
\* ^\s*(connector)\s*
ConnectorLead(s) ==
    LET a == LeadRun(s, {" "})
    IN  IF a < Len(s) /\ IsConnector(s[a + 1])
        THEN a + 1 + LeadRun(SubSeq(s, a + 2, Len(s)), {" "})
        ELSE 0

\* Number of trailing tokens the second alternative matches: \s*(connector)\s*$
ConnectorTrail(s) ==
    LET r == Reverse(s)
        b == LeadRun(r, {" "})
    IN  IF b < Len(s) /\ IsConnector(r[b + 1])
        THEN b + 1 + LeadRun(SubSeq(r, b + 2, Len(r)), {" "})
        ELSE 0

\* _CONNECTOR_RE.sub("", s): the leading match, then the trailing match in
\* what follows it.
CONNECTOR_RE_sub(s) ==
    LET rest == SubSeq(s, ConnectorLead(s) + 1, Len(s))
    IN  SubSeq(rest, 1, Len(rest) - ConnectorTrail(rest))

\* Routes shorter than this are not stripped.
MinRouteLen == 5
\* The 3-character floor.
LabelFloor == 3
\* range(3) of step 3.
ConnectorPasses == 3

\* StripRoutes without the skip of names shorter than MinRouteLen.
RECURSIVE StripRoutes_NoMinLen(_, _)
StripRoutes_NoMinLen(text, rs) ==
    IF rs = <<>> THEN text
    ELSE LET candidate == RemoveRoute(text, Head(rs))
         IN  IF StrLen(CandidateClean(candidate)) < LabelFloor
             THEN StripRoutes_NoMinLen(text, Tail(rs))
             ELSE StripRoutes_NoMinLen(candidate, Tail(rs))

\* Step 2 of normalize_label: the loop over sorted(route_names, key=len,
\* reverse=True); rs is that sorted list.
RECURSIVE StripRoutes(_, _)
StripRoutes(text, rs) ==
    IF rs = <<>> THEN text
    ELSE LET rname == Head(rs)
             candidate == RemoveRoute(text, rname)
         IN  IF StrLen(rname) < MinRouteLen THEN StripRoutes(text, Tail(rs))
             ELSE IF StrLen(CandidateClean(candidate)) < LabelFloor
                  THEN StripRoutes(text, Tail(rs))
                  ELSE StripRoutes(candidate, Tail(rs))

\* Step 3 of normalize_label: n passes of connector clean-up.
RECURSIVE CleanConnectors(_, _)
CleanConnectors(s, n) ==
    IF n = 0 THEN s
    ELSE CleanConnectors(StripChars(CONNECTOR_RE_sub(s), SepChars), n - 1)

\* Step 1.
AfterSuffix(name) == Strip(SUFFIX_RE_sub(name))

\* Steps 2 and 3.
AfterRoutes(name, rs) ==
    CleanConnectors(StripRoutes(AfterSuffix(name), rs), ConnectorPasses)

\* normalize_label whose step 4 falls back to the raw name.
normalize_label_RawFallback(name, rs) ==
    LET after_routes == AfterRoutes(name, rs)
    IN  IF StrLen(after_routes) >= LabelFloor THEN after_routes ELSE name

normalize_label(name, rs) ==
    LET after_suffix == AfterSuffix(name)
        after_routes == AfterRoutes(name, rs)
        result == IF StrLen(after_routes) >= LabelFloor THEN after_routes
                  ELSE after_suffix
    IN  IF StrLen(Strip(result)) >= LabelFloor THEN Strip(result) ELSE name

\* The lists sorted(route_names, key=len, reverse=True) can return: the sort
\* is stable, and a set of strings is iterated in hash order, so names of
\* equal length come in any order.
SortedByLenDesc(rs) ==
    {o \in [1..Cardinality(rs) -> rs] :
        /\ \A i, j \in DOMAIN o : i # j => o[i] # o[j]
        /\ \A i, j \in DOMAIN o : i < j => StrLen(o[i]) >= StrLen(o[j])}

----------------------------------------------------------------------------
(* normalize_label as a program of its own: one call, then a second call   *)
(* on the result with the same route names.                                *)

\* Most words of a generated label.
MaxWords == 3

TextWords == {"Ab", "Betzwood", "Loop", "Trail", "Trailhead", "and"}

\* What stands between two words of a generated label.
Joiners == {<<" ">>, <<" ", "-", " ">>}

RECURSIVE JoinWords(_, _)
JoinWords(ws, js) ==
    IF Len(ws) = 0 THEN <<>>
    ELSE IF Len(ws) = 1 THEN <<ws[1]>>
    ELSE <<Head(ws)>> \o Head(js) \o JoinWords(Tail(ws), Tail(js))

GeneratedLabels ==
    UNION {{JoinWords(ws, js) : ws \in [1..n -> TextWords],
                                js \in [1..(IF n = 0 THEN 0 ELSE n - 1) -> Joiners]}
           : n \in 0..MaxWords}

\* The labels of scenarios 1 and 2 and a label with two stacked suffixes.
ScenarioLabels ==
    {<<"Betzwood", " ", "Trailhead">>,
     <<"Audubon", " ", "Loop", " ", "Trail", " ", "Trailhead">>,
     <<"Betzwood", " ", "Trailhead", " ", "Parking">>}

R_AudubonLoopTrail == <<"Audubon", " ", "Loop", " ", "Trail">>
R_LoopTrail == <<"Loop", " ", "Trail">>
R_AbTrail == <<"Ab", " ", "Trail">>

\* The sets route_names of the calls: no name, one name, a longer and a
\* shorter name, a name below the minimum length, two names of equal length.
RouteSets ==
    {{}, {R_AudubonLoopTrail}, {R_LoopTrail}, {<<"Trail">>}, {<<"Loop">>},
     {R_AbTrail}, {<<"Betzwood">>},
     {R_LoopTrail, <<"Trail">>}, {<<"Trail">>, <<"Loop">>},
     {R_LoopTrail, <<"Loop">>}, {R_AudubonLoopTrail, <<"Loop">>},
     {R_AbTrail, <<"Betzwood">>}}

InitText ==
    /\ pc = "nl_start"
    /\ nl_name \in GeneratedLabels \cup ScenarioLabels
    /\ nl_routes \in RouteSets
    /\ nl_order = <<>>
    /\ nl_out = <<>>
    /\ nl_out2 = <<>>
    /\ features = <<>> /\ rail = <<>> /\ th_elems = <<>> /\ am_elems = <<>>
    /\ overpass = <<AllMirrors("ok"), AllMirrors("ok")>> /\ requests = <<>>
    /\ dl = <<>> /\ parsed = <<>>
    /\ prev = <<>> /\ merge_log = <<>> /\ am_placed = <<>>

\* result = normalize_label(name, route_names)
NormalizeOnce ==
    /\ pc = "nl_start"
    /\ \E o \in SortedByLenDesc(nl_routes) :
          /\ nl_order' = o
          /\ nl_out' = normalize_label(nl_name, o)
    /\ pc' = "nl_once"
    /\ UNCHANGED <<nl_name, nl_routes, nl_out2, graphVars, osmVars>>

\* normalize_label(result, route_names), the same set object
NormalizeTwice ==
    /\ pc = "nl_once"
    /\ nl_out2' = normalize_label(nl_out, nl_order)
    /\ pc' = "nl_done"
    /\ UNCHANGED <<nl_name, nl_routes, nl_order, nl_out, graphVars, osmVars>>

NextText == NormalizeOnce \/ NormalizeTwice

SpecText == InitText /\ [][NextText]_vars

----------------------------------------------------------------------------
(* The feature graph.  A feature is [type, coordinates, properties]; the   *)
(* properties are a record with the keys that are present in the dict.     *)
(* Ids are sequences of chunks: "rail_7" is <<"rail_", "7">>, so that a    *)
(* prefix can be added and tested.  Labels are token sequences.            *)

\* props.get(k, default)
Get(props, k, default) == IF k \in DOMAIN props THEN props[k] ELSE default

\* props.update(new) / props[k] = v
Update(props, new) == new @@ props

IsPoint(f) == f.type = "Point"
IsLine(f) == f.type = "LineString"

\* The indices of the features of fs that are Points / LineStrings.
PointIdx(fs) == {i \in 1..Len(fs) : IsPoint(fs[i])}
LineIdx(fs) == {i \in 1..Len(fs) : IsLine(fs[i])}

\* The elements of the index set S in increasing order.
RECURSIVE SortedIdx(_)
SortedIdx(S) == IF S = {} THEN <<>> ELSE <<Min(S)>> \o SortedIdx(S \ {Min(S)})

\* [f for f in fs if f is selected], in order.
SelectSeq2(fs, S) == LET o == SortedIdx(S) IN [k \in 1..Len(o) |-> fs[o[k]]]

\* props.get("station_label", "")
LabelOf(f) == Get(f.properties, "station_label", <<>>)
\* bool(props.get("station_label", "").strip())
HasLabel(f) == Len(Strip(LabelOf(f))) > 0
NodeType(f) == Get(f.properties, "node_type", "")
IdOf(f) == Get(f.properties, "id", <<>>)

\* (lon1 - lon2) ** 2 + (lat1 - lat2) ** 2
Dist2(a, b) == (a[1] - b[1]) * (a[1] - b[1]) + (a[2] - b[2]) * (a[2] - b[2])

\* config.py, in units of 0.0005 degrees.
TRAILHEAD_MATCH_DIST == 4
TRAILHEAD_INSERT_DIST == 2
ENDPOINT_MERGE_DIST == 12
AMENITY_MATCH_DIST == 2
AMENITY_MIN_SPACING == 4
RAIL_STATION_MERGE_DIST == 4

Sq(n) == n * n

\* The scan "if d < best_dist: best = ..." over the indices S in order: the
\* first index of least distance; 0 when S is empty.
NearestIdx(S, d) ==
    IF S = {} THEN 0
    ELSE CHOOSE i \in S : \A j \in S : d[i] < d[j] \/ (d[i] = d[j] /\ i <= j)

----------------------------------------------------------------------------
(* Node classification *)

NODE_PRIORITY(ntype) ==
    CASE ntype = "rail_station" -> 100
      [] ntype = "named_trailhead" -> 50
      [] ntype = "synthetic_trailhead" -> 40
      [] ntype = "amenity_bearing" -> 30
      [] ntype = "unnamed_endpoint" -> 20
      [] ntype = "unnamed_interior" -> 10

NodeTypes == {"rail_station", "named_trailhead", "synthetic_trailhead",
              "amenity_bearing", "unnamed_endpoint", "unnamed_interior"}

\* _NODE_PRIORITY.get(ntype, 10)
NODE_PRIORITY_get(ntype) == IF ntype \in NodeTypes THEN NODE_PRIORITY(ntype) ELSE 10

\* nid.startswith("th_")
StartsWithTh(nid) == Len(nid) > 0 /\ nid[1] = "th_"

\* The classifier with the synthetic marker tested before osm_named
classify_trail_node_MarkerFirst(props) ==
    IF Get(props, "node_type", "") # ""
    THEN <<props.node_type, NODE_PRIORITY_get(props.node_type)>>
    ELSE LET label == Strip(Get(props, "station_label", <<>>))
             osm_named == Get(props, "osm_named", FALSE)
             deg == Get(props, "deg", 2)
             nid == Get(props, "id", <<>>)
             ntype == IF Len(label) > 0 /\ StartsWithTh(nid) THEN "synthetic_trailhead"
                      ELSE IF Len(label) > 0 THEN "named_trailhead"
                      ELSE IF deg = 1 THEN "unnamed_endpoint"
                      ELSE "unnamed_interior"
         IN  <<ntype, NODE_PRIORITY(ntype)>>

\* _classify_trail_node(props): <<node_type, priority>>
classify_trail_node(props) ==
    IF Get(props, "node_type", "") # ""
    THEN <<props.node_type, NODE_PRIORITY_get(props.node_type)>>
    ELSE LET label == Strip(Get(props, "station_label", <<>>))
             osm_named == Get(props, "osm_named", FALSE)
             deg == Get(props, "deg", 2)
             nid == Get(props, "id", <<>>)
             ntype == IF osm_named /\ Len(label) > 0 THEN "named_trailhead"
                      ELSE IF Len(label) > 0 /\ StartsWithTh(nid) THEN "synthetic_trailhead"
                      ELSE IF Len(label) > 0 THEN "named_trailhead"
                      ELSE IF deg = 1 THEN "unnamed_endpoint"
                      ELSE "unnamed_interior"
         IN  <<ntype, NODE_PRIORITY(ntype)>>

\* f"rail_{stop_id}"
make_rail_id(stop_id) == <<"rail_">> \o stop_id

----------------------------------------------------------------------------
(* Stage 2b: merge_rail_into_trails *)

\* Steps 1 and 2 with the edges left as they are
PrefixRailFeature_PointsOnly(f) ==
    IF IsPoint(f)
    THEN LET props == f.properties
             new_id == make_rail_id(Get(props, "id", Get(props, "station_id", <<>>)))
             sid == IF Len(Get(props, "station_id", <<>>)) > 0
                    THEN [station_id |-> new_id] ELSE <<>>
         IN  [f EXCEPT !.properties =
                 Update(props, [id |-> new_id, node_type |-> "rail_station",
                                priority |-> NODE_PRIORITY("rail_station")] @@ sid)]
    ELSE f

\* Steps 1 and 2 for one rail feature.
PrefixRailFeature(f) ==
    IF IsPoint(f)
    THEN LET props == f.properties
             new_id == make_rail_id(Get(props, "id", Get(props, "station_id", <<>>)))
             sid == IF Len(Get(props, "station_id", <<>>)) > 0
                    THEN [station_id |-> new_id] ELSE <<>>
         IN  [f EXCEPT !.properties =
                 Update(props, [id |-> new_id, node_type |-> "rail_station",
                                priority |-> NODE_PRIORITY("rail_station")] @@ sid)]
    ELSE [f EXCEPT !.properties =
             Update(f.properties,
                    [from |-> make_rail_id(Get(f.properties, "from", <<>>)),
                     to |-> make_rail_id(Get(f.properties, "to", <<>>))])]

\* Step 3 for one trail feature.
ClassifyFeature(f) ==
    IF IsPoint(f)
    THEN LET c == classify_trail_node(f.properties)
         IN  [f EXCEPT !.properties = Update(f.properties, [node_type |-> c[1], priority |-> c[2]])]
    ELSE f

\* Step 4 without the "if tp_id in remap: continue" test
RECURSIVE RailRemap_NoExclusion(_, _, _, _)
RailRemap_NoExclusion(rail_points, trail_points, k, remap) ==
    IF k > Len(rail_points) THEN remap
    ELSE LET rc == rail_points[k].coordinates
             all == 1..Len(trail_points)
             D(i) == Dist2(rc, trail_points[i].coordinates)
             best == NearestIdx(all, [di \in all |-> D(di)])
         IN  IF best # 0 /\ D(best) < Sq(RAIL_STATION_MERGE_DIST)
             THEN RailRemap_NoExclusion(rail_points, trail_points, k + 1,
                            (IdOf(trail_points[best]) :> IdOf(rail_points[k])) @@ remap)
             ELSE RailRemap_NoExclusion(rail_points, trail_points, k + 1, remap)

\* Step 4: the loop over rail_points from the k-th on; remap maps absorbed
\* trail ids to rail ids.
RECURSIVE RailRemap(_, _, _, _)
RailRemap(rail_points, trail_points, k, remap) ==
    IF k > Len(rail_points) THEN remap
    ELSE LET rc == rail_points[k].coordinates
             free == {i \in 1..Len(trail_points) : IdOf(trail_points[i]) \notin DOMAIN remap}
             D(i) == Dist2(rc, trail_points[i].coordinates)
             best == NearestIdx(free, [di \in free |-> D(di)])
         IN  IF best # 0 /\ D(best) < Sq(RAIL_STATION_MERGE_DIST)
             THEN RailRemap(rail_points, trail_points, k + 1,
                            (IdOf(trail_points[best]) :> IdOf(rail_points[k])) @@ remap)
             ELSE RailRemap(rail_points, trail_points, k + 1, remap)

\* next((r for r in rail_points if r.id == new_id), None): its index, or 0.
FirstWithId(pts, id) ==
    LET S == {i \in 1..Len(pts) : IdOf(pts[i]) = id}
    IN  IF S = {} THEN 0 ELSE Min(S)

\* coords[idx] = list(new_coords), idx 0 (from) or -1 (to)
SetEnd(coords, key, c) ==
    IF Len(coords) = 0 THEN coords
    ELSE IF key = "from" THEN [coords EXCEPT ![1] = c]
    ELSE [coords EXCEPT ![Len(coords)] = c]

\* The re-pointing of one end with the polyline left as it is
RailRepointEnd_KeepCoords(f, key, remap, rail_points) ==
    LET old_id == Get(f.properties, key, <<>>)
    IN  IF old_id \in DOMAIN remap
        THEN [f EXCEPT !.properties = Update(f.properties, (key :> remap[old_id]))]
        ELSE f

\* The re-pointing of one end (key) of a trail edge.
RailRepointEnd(f, key, remap, rail_points) ==
    LET old_id == Get(f.properties, key, <<>>)
    IN  IF old_id \in DOMAIN remap
        THEN LET new_id == remap[old_id]
                 r == FirstWithId(rail_points, new_id)
             IN  [f EXCEPT !.properties = Update(f.properties, (key :> new_id)),
                           !.coordinates = IF r # 0
                                           THEN SetEnd(f.coordinates, key, rail_points[r].coordinates)
                                           ELSE f.coordinates]
        ELSE f

\* deg, deg_in, deg_out of a hidden node
HiddenProps == [station_id |-> <<>>, station_label |-> <<>>, deg |-> 0, deg_in |-> 0, deg_out |-> 0]

\* The trail feature at index i after re-pointing and hiding.
RailMergeFeature(fs, i, remap, rail_points) ==
    LET f == fs[i]
    IN  IF IsLine(f)
        THEN RailRepointEnd(RailRepointEnd(f, "from", remap, rail_points), "to", remap, rail_points)
        ELSE IF /\ IsPoint(f)
                /\ IdOf(f) \in DOMAIN remap
                \* id_to_trail_pt keeps the last point of each id
                /\ \A j \in PointIdx(fs) : IdOf(fs[j]) = IdOf(f) => j <= i
             THEN [f EXCEPT !.properties =
                      Update(f.properties, [node_type |-> "absorbed"] @@ HiddenProps)]
             ELSE f

merge_rail_into_trails(trails, rail_in) ==
    LET rfs == [i \in 1..Len(rail_in) |-> PrefixRailFeature(rail_in[i])]
        rail_points == SelectSeq2(rfs, PointIdx(rfs))
        rail_edges == SelectSeq2(rfs, LineIdx(rfs))
        cfs == [i \in 1..Len(trails) |-> ClassifyFeature(trails[i])]
        trail_points == SelectSeq2(cfs, PointIdx(cfs))
        remap == RailRemap(rail_points, trail_points, 1, <<>>)
        merged == [i \in 1..Len(cfs) |-> RailMergeFeature(cfs, i, remap, rail_points)]
    IN  rail_points \o merged \o rail_edges

----------------------------------------------------------------------------
(* Stage 3: add_trailheads.  An Overpass element is [id, tags, pos]; pos is *)
(* the node's lon/lat or the way's center.                                  *)

is_parking(e) == Get(e.tags, "amenity", "") = "parking"

\* The elements in the order of the answer
ParkingLast_InputOrder(elems) == elems

\* elements = [non-parking ...] + [parking ...]
ParkingLast(elems) ==
    SelectSeq2(elems, {i \in 1..Len(elems) : ~is_parking(elems[i])})
        \o SelectSeq2(elems, {i \in 1..Len(elems) : is_parking(elems[i])})

\* The pass-1 loop body without the test of the label the node has.
TrailheadLabelNode_Overwrite(props, elem) ==
    LET p1 == IF is_parking(elem) THEN Update(props, [has_parking |-> TRUE]) ELSE props
    IN  Update(p1, [station_label |-> Get(elem.tags, "name", <<>>), station_id |-> p1.id,
                    osm_named |-> TRUE, node_type |-> "named_trailhead",
                    priority |-> NODE_PRIORITY("named_trailhead")])

\* The body of the pass-1 loop for a matched element: the properties of the
\* nearest node afterwards.
TrailheadLabelNode(props, elem) ==
    LET p1 == IF is_parking(elem) THEN Update(props, [has_parking |-> TRUE]) ELSE props
        name == Get(elem.tags, "name", <<>>)
    IN  IF Get(p1, "node_type", "") = "rail_station" /\ Len(Get(p1, "station_label", <<>>)) > 0
        THEN p1
        ELSE IF Len(Get(p1, "station_label", <<>>)) = 0
        THEN Update(p1, [station_label |-> name, station_id |-> p1.id, osm_named |-> TRUE,
                         node_type |-> "named_trailhead",
                         priority |-> NODE_PRIORITY("named_trailhead")])
        ELSE p1

\* Pass 1 from the k-th element on: <<features, unmatched>>.
RECURSIVE TrailheadPass1(_, _, _, _)
TrailheadPass1(fs, elems, k, unmatched) ==
    IF k > Len(elems) THEN <<fs, unmatched>>
    ELSE LET elem == elems[k]
             name == Get(elem.tags, "name", <<>>)
             D(i) == Dist2(elem.pos, fs[i].coordinates)
             best == NearestIdx(PointIdx(fs), [di \in PointIdx(fs) |-> D(di)])
         IN  IF Len(name) = 0 THEN TrailheadPass1(fs, elems, k + 1, unmatched)
             ELSE IF best # 0 /\ D(best) < Sq(TRAILHEAD_MATCH_DIST)
             THEN TrailheadPass1(
                      [fs EXCEPT ![best].properties = TrailheadLabelNode(fs[best].properties, elem)],
                      elems, k + 1, unmatched)
             ELSE TrailheadPass1(fs, elems, k + 1, Append(unmatched, elem))

\* _project_onto_segment: <<q, squared distance from p to q>>.  The
\* polylines of the model are parallel to an axis, so t * dx and t * dy are
\* integers and \div is exact.
project_onto_segment(p, a, b) ==
    LET dx == b[1] - a[1]
        dy == b[2] - a[2]
        seg_len_sq == dx * dx + dy * dy
        num == (p[1] - a[1]) * dx + (p[2] - a[2]) * dy
        q == IF seg_len_sq = 0 \/ num <= 0 THEN a
             ELSE IF num >= seg_len_sq THEN b
             ELSE <<a[1] + (num * dx) \div seg_len_sq, a[2] + (num * dy) \div seg_len_sq>>
    IN  <<q, Dist2(p, q)>>

\* _nearest_edge(lon, lat, features, max_dist): <<fi, si, q>> or <<>> (None).
nearest_edge(p, fs, max_dist) ==
    LET segs == UNION {{<<fi, si>> : si \in 1..(Len(fs[fi].coordinates) - 1)}
                       : fi \in LineIdx(fs)}
        P(c) == project_onto_segment(p, fs[c[1]].coordinates[c[2]], fs[c[1]].coordinates[c[2] + 1])
        near == {c \in segs : P(c)[2] < Sq(max_dist)}
        Before(c, e) == c[1] < e[1] \/ (c[1] = e[1] /\ c[2] <= e[2])
    IN  IF near = {} THEN <<>>
        ELSE LET best == CHOOSE c \in near :
                            \A e \in near : P(c)[2] < P(e)[2] \/ (P(c)[2] = P(e)[2] /\ Before(c, e))
             IN  <<best[1], best[2], P(best)[1]>>

\* The new items of one unmatched element: <<fi, edge1, edge2, point>>.
SplitItem(fs, elem, fi, si, q) ==
    LET orig == fs[fi]
        coords == orig.coordinates
        props == orig.properties
        new_id == <<"th_">> \o elem.id
        first_half == SubSeq(coords, 1, si) \o <<q>>
        second_half == <<q>> \o SubSeq(coords, si + 1, Len(coords))
        park == IF is_parking(elem) THEN [has_parking |-> TRUE] ELSE <<>>
    IN  <<fi,
          [type |-> "LineString", coordinates |-> first_half,
           properties |-> [from |-> props.from, to |-> new_id, lines |-> props.lines]],
          [type |-> "LineString", coordinates |-> second_half,
           properties |-> [from |-> new_id, to |-> props.to, lines |-> props.lines]],
          [type |-> "Point", coordinates |-> q,
           properties |-> [id |-> new_id, station_id |-> new_id,
                           station_label |-> Get(elem.tags, "name", <<>>),
                           osm_named |-> TRUE, node_type |-> "synthetic_trailhead",
                           priority |-> NODE_PRIORITY("synthetic_trailhead"),
                           deg |-> 2, deg_in |-> 1, deg_out |-> 1] @@ park]>>

\* Pass 2 from the k-th unmatched element on: new_items.
RECURSIVE TrailheadPass2(_, _, _, _)
TrailheadPass2(fs, unmatched, k, new_items) ==
    IF k > Len(unmatched) THEN new_items
    ELSE LET elem == unmatched[k]
             rail_nearby == \E i \in PointIdx(fs) :
                                /\ NodeType(fs[i]) = "rail_station"
                                /\ Dist2(elem.pos, fs[i].coordinates) < Sq(TRAILHEAD_INSERT_DIST)
             result == nearest_edge(elem.pos, fs, TRAILHEAD_INSERT_DIST)
             split_edge_indices == {new_items[j][1] : j \in 1..Len(new_items)}
         IN  IF rail_nearby \/ Len(result) = 0 THEN TrailheadPass2(fs, unmatched, k + 1, new_items)
             ELSE IF result[1] \in split_edge_indices
             THEN TrailheadPass2(fs, unmatched, k + 1, new_items)
             ELSE TrailheadPass2(fs, unmatched, k + 1,
                                 Append(new_items, SplitItem(fs, elem, result[1], result[2], result[3])))

\* data["features"].extend([pt, e1, e2]) for every new item
RECURSIVE ExtendItems(_, _)
ExtendItems(fs, items) ==
    IF Len(items) = 0 THEN fs
    ELSE ExtendItems(fs \o <<Head(items)[4], Head(items)[2], Head(items)[3]>>, Tail(items))

\* add_trailheads(data) when the Overpass query returned elements.
add_trailheads(fs, elements) ==
    LET p1 == TrailheadPass1(fs, ParkingLast(elements), 1, <<>>)
        new_items == TrailheadPass2(p1[1], p1[2], 1, <<>>)
        remove == {new_items[j][1] : j \in 1..Len(new_items)}
    IN  ExtendItems(SelectSeq2(p1[1], (1..Len(p1[1])) \ remove), new_items)

----------------------------------------------------------------------------
(* Stage 3b: normalize_labels *)

\* The labels of the lines of an edge, and their ids.
LinesOf(f) == Get(f.properties, "lines", <<>>)

\* route_names: every non-empty stripped line label of the graph
RouteNames(fs) ==
    {r \in UNION {{Strip(Get(LinesOf(fs[i])[k], "label", <<>>)) : k \in 1..Len(LinesOf(fs[i]))}
                  : i \in LineIdx(fs)} : Len(r) > 0}

\* The body of the normalisation loop without the route-name-only test
NormalizeFeature_KeepRouteNames(f, order) ==
    LET props == f.properties
        old_label == Strip(Get(props, "station_label", <<>>))
        new_label == normalize_label(old_label, order)
    IN  IF ~IsPoint(f) \/ Len(old_label) = 0 \/ Get(props, "node_type", "") = "rail_station"
        THEN f
        ELSE IF new_label # old_label
        THEN [f EXCEPT !.properties = Update(props, [station_label |-> new_label])]
        ELSE f

\* The body of the normalisation loop for one feature; order is
\* sorted(route_names, key=len, reverse=True).
NormalizeFeature(f, order) ==
    LET props == f.properties
        old_label == Strip(Get(props, "station_label", <<>>))
        new_label == normalize_label(old_label, order)
        route_names_lower == {LowerStr(order[k]) : k \in 1..Len(order)}
        final == IF LowerStr(new_label) \in route_names_lower /\ ~Get(props, "osm_named", FALSE)
                 THEN <<>> ELSE new_label
    IN  IF ~IsPoint(f) \/ Len(old_label) = 0 \/ Get(props, "node_type", "") = "rail_station"
        THEN f
        ELSE IF final # old_label
        THEN [f EXCEPT !.properties = Update(props, [station_label |-> final])]
        ELSE f

\* (2 * TRAILHEAD_MATCH_DIST) ** 2
dedup_dist_sq == Sq(2 * TRAILHEAD_MATCH_DIST)

\* drop_j for the colliding pair (fi, fj)
drop_j(fi, fj) ==
    LET i_pri == Get(fi.properties, "priority", 0)
        j_pri == Get(fj.properties, "priority", 0)
        i_named == Get(fi.properties, "osm_named", FALSE)
        j_named == Get(fj.properties, "osm_named", FALSE)
        i_deg == Get(fi.properties, "deg", 2)
        j_deg == Get(fj.properties, "deg", 2)
    IN  IF i_pri # j_pri THEN j_pri < i_pri
        ELSE (i_named /\ ~j_named) \/ (i_named = j_named /\ i_deg <= j_deg)

ClearLabel(f) ==
    [f EXCEPT !.properties = Update(f.properties, [station_label |-> <<>>, station_id |-> <<>>])]

\* labeled_pts[j] collides with labeled_pts[i]
Collides(fs, lp, i, j) ==
    LET label_i == Strip(LabelOf(fs[lp[i]]))
        label_j == Strip(LabelOf(fs[lp[j]]))
    IN  /\ Len(label_j) > 0
        /\ LowerStr(label_i) = LowerStr(label_j)
        /\ Dist2(fs[lp[i]].coordinates, fs[lp[j]].coordinates) < dedup_dist_sq

\* The de-duplication loop from labeled_pts[i] on; lp holds the indices of
\* the points that were labelled when the loop began.  The inner loop ends at
\* the first collision (break).
RECURSIVE Dedup(_, _, _)
Dedup(fs, lp, i) ==
    IF i > Len(lp) THEN fs
    ELSE LET J == {j \in (i + 1)..Len(lp) : Collides(fs, lp, i, j)}
         IN  IF Len(Strip(LabelOf(fs[lp[i]]))) = 0 \/ J = {} THEN Dedup(fs, lp, i + 1)
             ELSE LET j == Min(J)
                      victim == IF drop_j(fs[lp[i]], fs[lp[j]]) THEN lp[j] ELSE lp[i]
                  IN  Dedup([fs EXCEPT ![victim] = ClearLabel(fs[victim])], lp, i + 1)

normalize_labels(fs, order) ==
    LET nfs == [i \in 1..Len(fs) |-> NormalizeFeature(fs[i], order)]
        labeled_pts == SortedIdx({i \in PointIdx(nfs) : HasLabel(nfs[i])})
    IN  Dedup(nfs, labeled_pts, 1)

----------------------------------------------------------------------------
(* Stage 3c: merge_nearby_endpoints *)

\* id_to_point[nid]: the index of the last Point of that id, or 0.
id_to_point(fs, nid) ==
    LET S == {i \in PointIdx(fs) : IdOf(fs[i]) = nid}
    IN  IF S = {} THEN 0 ELSE CHOOSE i \in S : \A j \in S : j <= i

\* The ids of the lines of an edge.
LineIds(f) == {Get(LinesOf(f)[k], "id", "") : k \in 1..Len(LinesOf(f))} \ {""}

EndOf(f, key) == Get(f.properties, key, <<>>)

\* node_lines.get(nid, set())
node_lines(fs, nid) ==
    UNION {LineIds(fs[i]) : i \in {e \in LineIdx(fs) : nid \in {EndOf(fs[e], "from"), EndOf(fs[e], "to")}}}

\* node_deg.get(nid, 0)
node_deg(fs, nid) ==
    Cardinality({e \in LineIdx(fs) : EndOf(fs[e], "from") = nid})
        + Cardinality({e \in LineIdx(fs) : EndOf(fs[e], "to") = nid})

\* The keys of node_deg in insertion order: edge by edge, "from" before "to".
RECURSIVE EndRefs(_, _)
EndRefs(fs, i) ==
    IF i > Len(fs) THEN <<>>
    ELSE IF IsLine(fs[i])
    THEN SelectSeq(<<EndOf(fs[i], "from"), EndOf(fs[i], "to")>>, LAMBDA n : Len(n) > 0)
             \o EndRefs(fs, i + 1)
    ELSE EndRefs(fs, i + 1)

\* endpoints: the degree-1 ids that have a Point, in the order of node_deg.
endpoints(fs) ==
    LET refs == EndRefs(fs, 1)
        firsts == {k \in 1..Len(refs) : /\ \A m \in 1..(k - 1) : refs[m] # refs[k]
                                        /\ node_deg(fs, refs[k]) = 1
                                        /\ id_to_point(fs, refs[k]) # 0}
    IN  SelectSeq2(refs, firsts)

\* labelled: the indices of the candidate targets, in feature order.
labelled(fs) ==
    SortedIdx({i \in PointIdx(fs) : HasLabel(fs[i]) \/ NodeType(fs[i]) = "rail_station"})

\* _repoint that leaves the polylines as they are
repoint_KeepCoords(fs, old_id, new_id, new_coords) ==
    [i \in 1..Len(fs) |->
        IF ~IsLine(fs[i]) THEN fs[i]
        ELSE LET f == fs[i]
                 a == IF EndOf(f, "from") = old_id /\ "from" \in DOMAIN f.properties
                      THEN [f EXCEPT !.properties = Update(f.properties, [from |-> new_id])]
                      ELSE f
             IN  IF EndOf(a, "to") = old_id /\ "to" \in DOMAIN a.properties
                 THEN [a EXCEPT !.properties = Update(a.properties, [to |-> new_id])]
                 ELSE a]

\* _repoint(old_id, new_id, new_coords)
repoint(fs, old_id, new_id, new_coords) ==
    [i \in 1..Len(fs) |->
        IF ~IsLine(fs[i]) THEN fs[i]
        ELSE LET f == fs[i]
                 a == IF EndOf(f, "from") = old_id /\ "from" \in DOMAIN f.properties
                      THEN [f EXCEPT !.properties = Update(f.properties, [from |-> new_id]),
                                     !.coordinates = SetEnd(f.coordinates, "from", new_coords)]
                      ELSE f
             IN  IF EndOf(a, "to") = old_id /\ "to" \in DOMAIN a.properties
                 THEN [a EXCEPT !.properties = Update(a.properties, [to |-> new_id]),
                                !.coordinates = SetEnd(a.coordinates, "to", new_coords)]
                 ELSE a]

\* _hide(nid); fs0 is the collection id_to_point was built from (the
\* passes neither add, remove nor re-order features).
hide(fs, fs0, nid) ==
    LET p == id_to_point(fs0, nid)
    IN  IF p = 0 THEN fs
        ELSE [fs EXCEPT ![p].properties = Update(fs[p].properties, HiddenProps)]

\* _edge_neighbors(nid)
edge_neighbors(fs, nid) ==
    ({EndOf(fs[e], "to") : e \in {x \in LineIdx(fs) : EndOf(fs[x], "from") = nid}}
        \cup {EndOf(fs[e], "from") : e \in {x \in LineIdx(fs) : EndOf(fs[x], "to") = nid}})
        \ {<<>>}

\* The target of endpoint ep_id in pass 1: an index of labelled(fs0), or 0.
MergeTarget(fs, fs0, ep_id) ==
    LET ep == id_to_point(fs0, ep_id)
        ep_lines == node_lines(fs0, ep_id)
        cand == {t \in {labelled(fs0)[k] : k \in 1..Len(labelled(fs0))} :
                    /\ IdOf(fs[t]) # ep_id
                    /\ \/ NodeType(fs[t]) = "rail_station"
                       \/ ep_lines \cap node_lines(fs0, IdOf(fs[t])) = {}}
        D(t) == Dist2(fs[ep].coordinates, fs[t].coordinates)
        best == NearestIdx(cand, [di \in cand |-> D(di)])
    IN  IF best = 0 \/ D(best) > Sq(ENDPOINT_MERGE_DIST) THEN 0 ELSE best

\* Pass 1 from the k-th endpoint on: <<features, merged_targets, log>>; a
\* merge logs "Merging endpoint {ep_id} into {best_id}".
RECURSIVE MergePass1(_, _, _, _, _, _)
MergePass1(fs, fs0, eps, k, merged_targets, log) ==
    IF k > Len(eps) THEN <<fs, merged_targets, log>>
    ELSE LET ep_id == eps[k]
             ep == id_to_point(fs0, ep_id)
             best == MergeTarget(fs, fs0, ep_id)
         IN  IF NodeType(fs[ep]) = "rail_station" \/ best = 0
             THEN MergePass1(fs, fs0, eps, k + 1, merged_targets, log)
             ELSE LET best_id == IdOf(fs[best])
                      \* target_feat = id_to_point[best_id]
                      target == id_to_point(fs0, best_id)
                  IN  MergePass1(hide(repoint(fs, ep_id, best_id, fs[target].coordinates), fs0, ep_id),
                                 fs0, eps, k + 1, merged_targets \cup {best_id},
                                 Append(log, [pass |-> 1, node |-> ep_id, into |-> best_id, hop |-> 0]))


\* The body of the cascade's inner loop for neighbour nbr_id of target t_id:
\* the cascade state [fs, visited, next, log, hop] afterwards; an absorption
\* logs "Cascade: absorbing {nbr_id} into {t_id}".
CascadeNode(st, fs0, t_id, nbr_id) ==
    LET t == id_to_point(fs0, t_id)
        nbr == id_to_point(fs0, nbr_id)
        visited == st.visited \cup {nbr_id}
        skip == [st EXCEPT !.visited = visited]
    IN  IF nbr = 0 THEN skip
        ELSE IF Dist2(st.fs[t].coordinates, st.fs[nbr].coordinates) > Sq(ENDPOINT_MERGE_DIST) THEN skip
        ELSE IF node_lines(fs0, nbr_id) \cap node_lines(fs0, t_id) # {} THEN skip
        ELSE LET fs2 == hide(repoint(st.fs, nbr_id, t_id, st.fs[t].coordinates), fs0, nbr_id)
             IN  [fs |-> fs2, visited |-> visited,
                  next |-> st.next \cup (edge_neighbors(fs2, t_id) \ visited),
                  log |-> Append(st.log, [pass |-> 2, node |-> nbr_id, into |-> t_id,
                                          hop |-> st.hop]),
                  hop |-> st.hop]

\* "for nbr_id in frontier": a set is iterated in hash order, so every order
\* of the remaining neighbours is possible.  The set of states the loop can
\* end in.
RECURSIVE CascadeFrontier(_, _, _, _)
CascadeFrontier(st, fs0, t_id, remaining) ==
    IF remaining = {} THEN {st}
    ELSE UNION {CascadeFrontier(CascadeNode(st, fs0, t_id, n), fs0, t_id, remaining \ {n})
                : n \in remaining}

\* Maximum number of hops walked from a merge target
MaxHops == 3

\* "for _ in range(3)" with hops iterations left, from out = [fs, log]: the
\* results [fs, log] it can end in.
RECURSIVE CascadeHops(_, _, _, _, _, _)
CascadeHops(out, fs0, t_id, visited, frontier, hops) ==
    IF hops = 0 \/ frontier = {} THEN {out}
    ELSE UNION {CascadeHops([fs |-> st.fs, log |-> st.log], fs0, t_id, st.visited, st.next,
                            hops - 1)
                : st \in CascadeFrontier([fs |-> out.fs, visited |-> visited, next |-> {},
                                          log |-> out.log, hop |-> MaxHops - hops + 1],
                                         fs0, t_id, frontier)}

\* "for t_id in merged_targets", in every order of the set.
RECURSIVE Cascade(_, _, _)
Cascade(out, fs0, targets) ==
    IF targets = {} THEN {out}
    ELSE UNION {UNION {Cascade(out2, fs0, targets \ {t_id})
                       : out2 \in CascadeHops(out, fs0, t_id, {t_id},
                                              edge_neighbors(out.fs, t_id) \ {t_id}, MaxHops)}
                : t_id \in targets}

\* merge_nearby_endpoints(data): the results [fs, log] it can end in.
merge_nearby_endpoints(fs) ==
    LET p1 == MergePass1(fs, fs, endpoints(fs), 1, {}, <<>>)
    IN  Cascade([fs |-> p1[1], log |-> p1[3]], fs, p1[2])

----------------------------------------------------------------------------
(* Stage 3d: add_amenities.  The icons are the tokens "{WC}", "{water}",   *)
(* "{repair}", "{info}" and "{P}", standing for the five emoji.             *)

ICON_ORDER == <<"{WC}", "{water}", "{repair}", "{info}", "{P}">>

\* <<icon, icon_type>> of an element, or <<>> when it is no amenity
IconOf(tags) ==
    LET amenity == Get(tags, "amenity", "")
    IN  IF amenity = "bicycle_repair_station" THEN <<"{repair}", "repair">>
        ELSE IF Get(tags, "tourism", "") = "information" /\ Get(tags, "information", "") = "map"
        THEN <<"{info}", "map">>
        ELSE IF amenity = "drinking_water" THEN <<"{water}", "water">>
        ELSE IF amenity = "toilets" THEN <<"{WC}", "toilets">>
        ELSE IF amenity = "parking" THEN <<"{P}", "parking">>
        ELSE <<>>

\* node_icons after the pre-seeding from has_parking
SeedIcons(fs) ==
    LET ids == {IdOf(fs[i]) : i \in {p \in PointIdx(fs) : Get(fs[p].properties, "has_parking", FALSE)}}
    IN  [nid \in ids |-> {"{P}"}]

\* dict.setdefault(k, set()).add(v)
AddTo(d, k, v) == IF k \in DOMAIN d THEN [d EXCEPT ![k] = @ \cup {v}] ELSE (k :> {v}) @@ d

\* The body of the snapping loop without the test of the snap distance
SnapElement_AnyDistance(st, fs, elem) ==
    LET ic == IconOf(elem.tags)
        icon == ic[1]
        icon_type == ic[2]
        spacing_blocked == \E p \in Get(st.placed, icon_type, {}) :
                               Dist2(elem.pos, p) < Sq(AMENITY_MIN_SPACING)
        D(i) == Dist2(elem.pos, fs[i].coordinates)
        best == NearestIdx(PointIdx(fs), [di \in PointIdx(fs) |-> D(di)])
        best_id == IdOf(fs[best])
    IN  IF Len(ic) = 0 \/ spacing_blocked \/ best = 0 THEN st
        ELSE [node_icons |-> AddTo(st.node_icons, best_id, icon),
              placed |-> AddTo(st.placed, icon_type, elem.pos),
              node_amenity_name |-> st.node_amenity_name]

\* The body of the snapping loop without the minimum-spacing check
SnapElement_NoSpacing(st, fs, elem) ==
    LET ic == IconOf(elem.tags)
        icon == ic[1]
        icon_type == ic[2]
        snap_dist == IF icon_type = "parking" THEN TRAILHEAD_MATCH_DIST ELSE AMENITY_MATCH_DIST
        D(i) == Dist2(elem.pos, fs[i].coordinates)
        nearest == NearestIdx(PointIdx(fs), [di \in PointIdx(fs) |-> D(di)])
        withIcons == {i \in PointIdx(fs) : /\ IdOf(fs[i]) \in DOMAIN st.node_icons
                                           /\ st.node_icons[IdOf(fs[i])] # {"{P}"}}
        best_amenity == NearestIdx(withIcons, [di \in withIcons |-> D(di)])
        best == IF icon_type = "parking" /\ best_amenity # 0 /\ D(best_amenity) <= Sq(snap_dist)
                THEN best_amenity ELSE nearest
        best_id == IdOf(fs[best])
        amenity_name == Strip(Get(elem.tags, "name", <<>>))
    IN  IF Len(ic) = 0 THEN st
        ELSE IF best = 0 \/ D(best) > Sq(snap_dist) THEN st
        ELSE [node_icons |-> AddTo(st.node_icons, best_id, icon),
              placed |-> AddTo(st.placed, icon_type, elem.pos),
              node_amenity_name |->
                  IF /\ Len(amenity_name) > 0
                     /\ (best_id \notin DOMAIN st.node_amenity_name \/ icon_type = "parking")
                  THEN (best_id :> amenity_name) @@ st.node_amenity_name
                  ELSE st.node_amenity_name]

\* The body of the snapping loop for one element; st is
\* [node_icons, placed, node_amenity_name].
SnapElement(st, fs, elem) ==
    LET ic == IconOf(elem.tags)
        icon == ic[1]
        icon_type == ic[2]
        spacing_blocked == \E p \in Get(st.placed, icon_type, {}) :
                               Dist2(elem.pos, p) < Sq(AMENITY_MIN_SPACING)
        snap_dist == IF icon_type = "parking" THEN TRAILHEAD_MATCH_DIST ELSE AMENITY_MATCH_DIST
        D(i) == Dist2(elem.pos, fs[i].coordinates)
        nearest == NearestIdx(PointIdx(fs), [di \in PointIdx(fs) |-> D(di)])
        withIcons == {i \in PointIdx(fs) : /\ IdOf(fs[i]) \in DOMAIN st.node_icons
                                           /\ st.node_icons[IdOf(fs[i])] # {"{P}"}}
        best_amenity == NearestIdx(withIcons, [di \in withIcons |-> D(di)])
        best == IF icon_type = "parking" /\ best_amenity # 0 /\ D(best_amenity) <= Sq(snap_dist)
                THEN best_amenity ELSE nearest
        best_id == IdOf(fs[best])
        amenity_name == Strip(Get(elem.tags, "name", <<>>))
    IN  IF Len(ic) = 0 THEN st
        ELSE IF spacing_blocked THEN st
        ELSE IF best = 0 \/ D(best) > Sq(snap_dist) THEN st
        ELSE [node_icons |-> AddTo(st.node_icons, best_id, icon),
              placed |-> AddTo(st.placed, icon_type, elem.pos),
              node_amenity_name |->
                  IF /\ Len(amenity_name) > 0
                     /\ (best_id \notin DOMAIN st.node_amenity_name \/ icon_type = "parking")
                  THEN (best_id :> amenity_name) @@ st.node_amenity_name
                  ELSE st.node_amenity_name]

RECURSIVE SnapAll(_, _, _, _)
SnapAll(st, fs, elems, k) ==
    IF k > Len(elems) THEN st ELSE SnapAll(SnapElement(st, fs, elems[k]), fs, elems, k + 1)

\* " ".join(ic for ic in _ICON_ORDER if ic in icons)
RECURSIVE IconStr(_, _)
IconStr(icons, k) ==
    IF k > Len(ICON_ORDER) THEN <<>>
    ELSE LET rest == IconStr(icons, k + 1)
         IN  IF ICON_ORDER[k] \notin icons THEN rest
             ELSE IF Len(rest) = 0 THEN <<ICON_ORDER[k]>>
             ELSE <<ICON_ORDER[k], " ">> \o rest

\* The label written to the node of id nid.
IconLabel(f, icons, names) ==
    LET stripped == Strip(LabelOf(f))
        base == IF Len(stripped) > 0 THEN stripped ELSE Get(names, IdOf(f), <<>>)
        icon_str == IconStr(icons, 1)
    IN  IF Len(base) > 0 THEN Strip(icon_str \o <<" ">> \o base) ELSE icon_str

\* [node_icons, placed, node_amenity_name] when the snapping loop has ended
SnapState(fs, elements) ==
    SnapAll([node_icons |-> SeedIcons(fs), placed |-> <<>>, node_amenity_name |-> <<>>],
            fs, ParkingLast(elements), 1)

\* add_amenities(data) when the Overpass query returned elements.
add_amenities(fs, elements) ==
    LET st == SnapState(fs, elements)
    IN  [i \in 1..Len(fs) |->
            IF /\ IsPoint(fs[i])
               /\ IdOf(fs[i]) \in DOMAIN st.node_icons
               \* id_to_feat keeps the last point of each id
               /\ id_to_point(fs, IdOf(fs[i])) = i
            THEN [fs[i] EXCEPT !.properties =
                     Update(fs[i].properties,
                            [station_label |-> IconLabel(fs[i], st.node_icons[IdOf(fs[i])],
                                                         st.node_amenity_name)])]
            ELSE fs[i]]

----------------------------------------------------------------------------
(* Stage 4: filter_nodes *)

\* filter_nodes deciding by the stored deg instead of the edges
filter_nodes_StoredDeg(fs) ==
    [i \in 1..Len(fs) |->
        IF /\ IsPoint(fs[i])
           /\ NodeType(fs[i]) # "rail_station"
           /\ ~HasLabel(fs[i])
           /\ Get(fs[i].properties, "deg", 2) # 1
        THEN [fs[i] EXCEPT !.properties = Update(fs[i].properties, HiddenProps)]
        ELSE fs[i]]

filter_nodes(fs) ==
    [i \in 1..Len(fs) |->
        IF /\ IsPoint(fs[i])
           /\ NodeType(fs[i]) # "rail_station"
           /\ ~HasLabel(fs[i])
           /\ node_deg(fs, IdOf(fs[i])) # 1
        THEN [fs[i] EXCEPT !.properties = Update(fs[i].properties, HiddenProps)]
        ELSE fs[i]]

----------------------------------------------------------------------------
(* The inputs of main(): trail graphs as osm2loom.py writes them, rail     *)
(* graphs, and the elements of the two Overpass answers.  Coordinates are  *)
(* offsets in units of 0.0005 degrees from a corner of the bounding box.   *)

Norristown == <<"Norristown">>
NORRISTOWN == <<"NORRISTOWN">>
NorristownTrailhead == <<"Norristown", " ", "Trailhead">>
Betzwood == <<"Betzwood">>
BetzwoodTrailhead == <<"Betzwood", " ", "Trailhead">>
ParkTrailParking == <<"Park", " ", "Trail", " ", "Parking">>

RiverTrail == [id |-> "L1", label |-> <<"River", " ", "Trail">>]
LoopRoute == [id |-> "L2", label |-> <<"Loop">>]
ElmPointLine == [id |-> "R1", label |-> <<"Elm", " ", "Point">>]

\* A point as osm2loom.py writes it (lines 260-277): a node without a name
\* that ends a way is labelled with the name of its route.
LoomPoint(id, pos, name, deg, route) ==
    LET label == IF Len(name) = 0 /\ deg = 1 THEN route.label ELSE name
    IN  [type |-> "Point", coordinates |-> pos,
         properties |-> [id |-> <<id>>, station_id |-> IF Len(label) > 0 THEN <<id>> ELSE <<>>,
                         station_label |-> label, deg |-> deg, deg_in |-> deg, deg_out |-> deg]]

\* A station of the rail graph, with the properties merge_rail_into_trails
\* reads.
RailPoint(id, pos, label) ==
    [type |-> "Point", coordinates |-> pos,
     properties |-> [id |-> <<id>>, station_id |-> <<id>>, station_label |-> label,
                     deg |-> 1, deg_in |-> 1, deg_out |-> 1]]

\* An edge as osm2loom.py writes it (lines 245-252).
Edge(from, to, coords, lines) ==
    [type |-> "LineString", coordinates |-> coords,
     properties |-> [from |-> <<from>>, to |-> <<to>>, lines |-> lines]]

\* An Overpass element with its tags.
Element(id, pos, tags) == [id |-> <<id>>, tags |-> tags, pos |-> pos]

\* The subsequences of a sequence of at most two elements.
SubSeqs(s) ==
    IF Len(s) = 0 THEN {<<>>}
    ELSE IF Len(s) = 1 THEN {<<>>, s}
    ELSE {<<>>, <<s[1]>>, <<s[2]>>, s}

\* Largest offset of the first rail station from the trail node n2
MaxShift == 4

\* World R: the trail n1 - n2 - n3 of the River Trail, a rail station s1
\* near n2 and possibly a second station s2 on the same rail line.
RailTrail(l1, l2) ==
    <<LoomPoint("n1", <<2, 4>>, l1, 1, RiverTrail), LoomPoint("n2", <<10, 4>>, l2, 2, RiverTrail),
      LoomPoint("n3", <<18, 4>>, <<>>, 1, RiverTrail),
      Edge("n1", "n2", <<<<2, 4>>, <<6, 4>>, <<10, 4>>>>, <<RiverTrail>>),
      Edge("n2", "n3", <<<<10, 4>>, <<18, 4>>>>, <<RiverTrail>>)>>

RailGraphs ==
    {<<RailPoint("s1", <<10 + dx, 4 + dy>>, Norristown)>>
        : dx \in 0..MaxShift, dy \in {0, 2}}
    \cup {<<RailPoint("s1", <<10 + dx, 6>>, Norristown),
            RailPoint("s2", <<12, 4>>, l),
            Edge("s1", "s2", <<<<10 + dx, 6>>, <<12, 6>>, <<12, 4>>>>, <<ElmPointLine>>)>>
          : dx \in 0..MaxShift, l \in {<<>>, Norristown, ElmPointLine.label}}

RailTrailheads ==
    <<Element("101", <<10, 3>>, [highway |-> "trailhead", name |-> BetzwoodTrailhead]),
      Element("102", <<14, 5>>, [amenity |-> "parking", name |-> ParkTrailParking])>>

\* A trailhead node and a parking way that carry the same OSM id (ids are
\* unique per element type only), beside the two edges of the trail.
TwinTrailheads ==
    <<Element("102", <<6, 5>>, [highway |-> "trailhead", name |-> BetzwoodTrailhead]),
      Element("102", <<14, 5>>, [amenity |-> "parking", name |-> ParkTrailParking])>>

\* A parking lot listed before the trailhead that matches the same node n2,
\* a parking lot beside n1, and a parking lot and a trailhead that both
\* project onto the edge n2-n3.
LotFirstTrailheads ==
    <<Element("105", <<9, 3>>, [amenity |-> "parking", name |-> ParkTrailParking]),
      Element("101", <<10, 3>>, [highway |-> "trailhead", name |-> BetzwoodTrailhead]),
      Element("107", <<2, 5>>, [amenity |-> "parking", name |-> ParkTrailParking]),
      Element("102", <<14, 5>>, [amenity |-> "parking", name |-> ParkTrailParking]),
      Element("106", <<14, 3>>, [highway |-> "trailhead", name |-> Norristown])>>

RailAmenities == <<Element("201", <<10, 5>>, [amenity |-> "toilets"])>>

WorldsR ==
    {[t |-> RailTrail(l1, l2), r |-> r, th |-> th, am |-> am]
        : l1 \in {<<>>, Norristown}, l2 \in {<<>>, BetzwoodTrailhead}, r \in RailGraphs,
          th \in SubSeqs(RailTrailheads) \cup {TwinTrailheads, LotFirstTrailheads}, am \in SubSeqs(RailAmenities)}

\* World D: three nodes of one trail within the de-duplication distance of
\* each other, and up to two rail stations close by.
DedupLabels == {<<>>, Norristown, NORRISTOWN, NorristownTrailhead}

DedupTrail(l1, l2, l3) ==
    <<LoomPoint("n1", <<2, 4>>, l1, 1, RiverTrail), LoomPoint("n2", <<5, 4>>, l2, 2, RiverTrail),
      LoomPoint("n3", <<8, 4>>, l3, 1, RiverTrail),
      Edge("n1", "n2", <<<<2, 4>>, <<5, 4>>>>, <<RiverTrail>>),
      Edge("n2", "n3", <<<<5, 4>>, <<8, 4>>>>, <<RiverTrail>>)>>

DedupRail ==
    {<<>>,
     <<RailPoint("s1", <<8, 10>>, Norristown)>>,
     <<RailPoint("s1", <<8, 10>>, Norristown), RailPoint("s2", <<8, 14>>, Norristown),
       Edge("s1", "s2", <<<<8, 10>>, <<8, 14>>>>, <<ElmPointLine>>)>>,
     \* two stations that both have n2 as their nearest trail node
     <<RailPoint("s1", <<5, 5>>, Norristown), RailPoint("s2", <<6, 4>>, <<>>),
       Edge("s1", "s2", <<<<5, 5>>, <<6, 5>>, <<6, 4>>>>, <<ElmPointLine>>)>>}

DedupTrailheads == <<Element("103", <<2, 5>>, [highway |-> "trailhead", name |-> Norristown])>>

WorldsD ==
    {[t |-> DedupTrail(l1, l2, l3), r |-> r, th |-> th, am |-> <<>>]
        : l1 \in DedupLabels, l2 \in DedupLabels, l3 \in DedupLabels, r \in DedupRail,
          th \in SubSeqs(DedupTrailheads)}

\* World M: the River Trail x1 - x2 - x3 and the Loop, a chain
\* y2 - y1 - t1 - ... of tail nodes beyond y1, ending gap units from x2; a
\* rail station may stand next to y1.  The way beyond x3 belongs to a route
\* that filter_routes (lines 158-171) has removed, so x3 still carries the
\* deg 2 that osm2loom.py counted, with one edge left.
TailId(k) == "t" \o ToString(k)
TailPos(k) == <<9 + k, 15>>

\* Largest number of nodes of the Loop beyond y1
MaxTail == 4

MergeTrail(lx, ly, gap, tail) ==
    <<LoomPoint("x1", <<2, 4>>, <<>>, 1, RiverTrail), LoomPoint("x2", <<10, 4>>, lx, 2, RiverTrail),
      LoomPoint("x3", <<18, 4>>, <<>>, 2, RiverTrail),
      LoomPoint("y1", <<10, 12>>, ly, IF tail > 0 THEN 2 ELSE 1, LoopRoute),
      LoomPoint("y2", <<10, 4 + gap>>, <<>>, 1, LoopRoute)>>
    \o [k \in 1..tail |->
           LoomPoint(TailId(k), TailPos(k), <<>>, IF k = tail THEN 1 ELSE 2, LoopRoute)]
    \o <<Edge("x1", "x2", <<<<2, 4>>, <<10, 4>>>>, <<RiverTrail>>),
         Edge("x2", "x3", <<<<10, 4>>, <<18, 4>>>>, <<RiverTrail>>),
         Edge("y1", "y2", <<<<10, 12>>, <<10, 4 + gap>>>>, <<LoopRoute>>)>>
    \o [k \in 1..tail |->
           IF k = 1 THEN Edge("y1", TailId(1), <<<<10, 12>>, TailPos(1)>>, <<LoopRoute>>)
           ELSE Edge(TailId(k - 1), TailId(k), <<TailPos(k - 1), TailPos(k)>>, <<LoopRoute>>)]

MergeRailGraphs ==
    {<<>>, <<RailPoint("s1", <<10, 13>>, Norristown)>>,
     <<RailPoint("s1", <<13, 4>>, Norristown)>>,
     \* a station that is named like the Loop
     <<RailPoint("s1", <<13, 4>>, LoopRoute.label)>>}

MergeAmenities == <<Element("202", <<10, 12>>, [amenity |-> "drinking_water"])>>

\* The answers of the amenity query: water at y1 (202), water 3 units south
\* of it (203), toilets at the same place (204), water 4 units north of y1
\* (205) and a parking lot at y1 (206), in several orders of arrival.
Water203 == Element("203", <<10, 9>>, [amenity |-> "drinking_water", name |-> <<"Spring">>])
Toilets204 == Element("204", <<10, 9>>, [amenity |-> "toilets"])
Water205 == Element("205", <<10, 16>>, [amenity |-> "drinking_water"])
Parking206 == Element("206", <<10, 12>>, [amenity |-> "parking", name |-> <<"Mill", " ", "Lot">>])
Water207 == Element("207", <<10, 13>>, [amenity |-> "drinking_water"])

MergeAmenityLists ==
    {<<>>, MergeAmenities,
     MergeAmenities \o <<Water203, Toilets204, Water205>>,
     <<Water203, Toilets204>> \o MergeAmenities,
     <<Parking206, Water203, Toilets204>>,
     \* water that has no node within reach unless the Loop has a tail, then
     \* water 3 units from it next to y1
     <<Water205, Water207>>}

\* a trailhead next to y1 that is named after the Loop
MergeTrailheads ==
    <<Element("104", <<10, 13>>, [highway |-> "trailhead", name |-> <<"Loop", " ", "Trailhead">>])>>

WorldsM ==
    {[t |-> MergeTrail(lx, ly, gap, tail), r |-> r, th |-> th, am |-> am]
        : lx \in {<<>>, Betzwood}, ly \in {<<>>, NorristownTrailhead}, gap \in {3, 5},
          tail \in {0, 1, MaxTail}, r \in MergeRailGraphs, th \in SubSeqs(MergeTrailheads),
          am \in MergeAmenityLists}

Worlds == WorldsR \cup WorldsD \cup WorldsM

----------------------------------------------------------------------------
(* main(): the passes in order *)

Init ==
    /\ pc = "merge_rail"
    /\ \E w \in Worlds :
          /\ features = w.t
          /\ rail = w.r
          /\ th_elems = w.th
          /\ am_elems = w.am
    /\ overpass \in {AllMirrors("error"), AllMirrors("ok")} \X {AllMirrors("error"), AllMirrors("ok")}
    /\ requests = <<>>
    /\ dl = <<>> /\ parsed = <<>>
    /\ prev = <<>>
    /\ merge_log = <<>>
    /\ am_placed = <<>>
    /\ nl_name = <<>> /\ nl_routes = {} /\ nl_order = <<>> /\ nl_out = <<>> /\ nl_out2 = <<>>

\* if rail["features"]: data = merge_rail_into_trails(data, rail)
MergeRail ==
    /\ pc = "merge_rail"
    /\ features' = IF Len(rail) > 0 THEN merge_rail_into_trails(features, rail) ELSE features
    /\ prev' = features
    /\ pc' = "add_trailheads"
    /\ UNCHANGED <<rail, th_elems, am_elems, overpass, requests, merge_log, am_placed, textVars, osmVars>>

\* data = add_trailheads(data); a failed query returns data as it is
AddTrailheads ==
    /\ pc = "add_trailheads"
    /\ LET q == overpass_query(overpass[1], th_elems)
       IN  /\ features' = IF q.raised THEN features ELSE add_trailheads(features, q.elements)
           /\ requests' = requests \o [k \in 1..q.tried |-> [query |-> "trailheads", mirror |-> k]]
    /\ prev' = features
    /\ pc' = "normalize_labels"
    /\ UNCHANGED <<rail, th_elems, am_elems, overpass, merge_log, am_placed, textVars, osmVars>>

\* data = normalize_labels(data)
NormalizeLabels ==
    /\ pc = "normalize_labels"
    /\ \E o \in SortedByLenDesc(RouteNames(features)) :
          /\ nl_order' = o
          /\ features' = normalize_labels(features, o)
    /\ prev' = features
    /\ pc' = "merge_nearby_endpoints"
    /\ UNCHANGED <<rail, th_elems, am_elems, overpass, requests, merge_log, am_placed, nl_name, nl_routes, nl_out, nl_out2, osmVars>>

\* data = merge_nearby_endpoints(data)
MergeNearbyEndpoints ==
    /\ pc = "merge_nearby_endpoints"
    /\ \E out \in merge_nearby_endpoints(features) :
          /\ features' = out.fs
          /\ merge_log' = out.log
    /\ prev' = features
    /\ pc' = "add_amenities"
    /\ UNCHANGED <<rail, th_elems, am_elems, overpass, requests, am_placed, textVars, osmVars>>

\* data = add_amenities(data); a failed query returns data as it is
AddAmenities ==
    /\ pc = "add_amenities"
    /\ LET q == overpass_query(overpass[2], am_elems)
       IN  /\ features' = IF q.raised THEN features ELSE add_amenities(features, q.elements)
           /\ am_placed' = IF q.raised THEN am_placed ELSE SnapState(features, q.elements).placed
           /\ requests' = requests \o [k \in 1..q.tried |-> [query |-> "amenities", mirror |-> k]]
    /\ prev' = features
    /\ pc' = "filter_nodes"
    /\ UNCHANGED <<rail, th_elems, am_elems, overpass, merge_log, textVars, osmVars>>

\* data = filter_nodes(data)
FilterNodes ==
    /\ pc = "filter_nodes"
    /\ features' = filter_nodes(features)
    /\ prev' = features
    /\ pc' = "done"
    /\ UNCHANGED <<rail, th_elems, am_elems, overpass, requests, merge_log, am_placed, textVars, osmVars>>

Next ==
    \/ MergeRail
    \/ AddTrailheads
    \/ NormalizeLabels
    \/ MergeNearbyEndpoints
    \/ AddAmenities
    \/ FilterNodes

Spec == Init /\ [][Next]_vars

----------------------------------------------------------------------------
(* main() with mirrors that fail: two graphs, and every behaviour of the   *)
(* three mirrors for each of the two queries.                              *)

OverpassWorlds ==
    {[t |-> RailTrail(<<>>, <<>>), r |-> <<RailPoint("s1", <<14, 4>>, Norristown)>>,
      th |-> RailTrailheads, am |-> RailAmenities],
     [t |-> MergeTrail(<<>>, <<>>, 5, 0), r |-> <<>>,
      th |-> MergeTrailheads, am |-> <<Parking206, Water203, Toilets204>>]}

InitOverpass ==
    /\ pc = "merge_rail"
    /\ \E w \in OverpassWorlds :
          /\ features = w.t
          /\ rail = w.r
          /\ th_elems = w.th
          /\ am_elems = w.am
    /\ overpass \in [1..NumMirrors -> MirrorKinds] \X [1..NumMirrors -> MirrorKinds]
    /\ requests = <<>>
    /\ dl = <<>> /\ parsed = <<>>
    /\ prev = <<>>
    /\ merge_log = <<>>
    /\ am_placed = <<>>
    /\ nl_name = <<>> /\ nl_routes = {} /\ nl_order = <<>> /\ nl_out = <<>> /\ nl_out2 = <<>>

SpecOverpass == InitOverpass /\ [][Next]_vars

----------------------------------------------------------------------------
(* osm_trails_to_loom.py: OSMTrailDownloader.download_osm_data.  One step  *)
(* is one iteration of "for attempt in range(self.max_retries)".            *)

\* Largest max_retries of a downloader
MaxRetries == 3

\* self.retry_delay
retry_delay == 5

\* What requests.post does: a response with status 200, 429 or another
\* status (500), or it raises Timeout or another RequestException.
PostOutcomes == {"200", "429", "500", "Timeout", "RequestException"}

\* The sequences of length n over the set S.
SeqsOfLen(S, n) == [1..n -> S]

\* One iteration of the loop for the downloader state d; d.attempt is the
\* loop variable of the iteration that runs next.
download_step_NoRetry(d) ==
    LET r == d.responses[d.attempt + 1]
        sent == [d EXCEPT !.sent = @ + 1, !.attempt = @ + 1]
    IN  IF r = "200"
        THEN [sent EXCEPT !.osm_data = TRUE, !.saved = d.disk_ok,
                          !.result = IF d.disk_ok THEN "True" ELSE "IOError"]
        ELSE [sent EXCEPT !.result = "False"]

download_step(d) ==
    LET r == d.responses[d.attempt + 1]
        sent == [d EXCEPT !.sent = @ + 1, !.attempt = @ + 1]
    IN  IF r = "200"
        \* self.osm_data = response.text; self._save_osm_data(); return True
        THEN [sent EXCEPT !.osm_data = TRUE, !.saved = d.disk_ok,
                          !.result = IF d.disk_ok THEN "True" ELSE "IOError"]
        ELSE IF r = "429"
        THEN [sent EXCEPT !.sleeps = Append(@, retry_delay * (d.attempt + 1))]
        ELSE IF r = "Timeout"
        THEN [sent EXCEPT !.sleeps = Append(@, retry_delay)]
        ELSE IF r = "RequestException" /\ d.attempt < d.max_retries - 1
        THEN [sent EXCEPT !.sleeps = Append(@, retry_delay)]
        ELSE sent

InitDownload ==
    /\ pc = "dl_loop"
    /\ \E n \in 0..MaxRetries : \E resp \in SeqsOfLen(PostOutcomes, n) : \E disk \in BOOLEAN :
          dl = [max_retries |-> n, responses |-> resp, disk_ok |-> disk, attempt |-> 0,
                sent |-> 0, osm_data |-> FALSE, saved |-> FALSE, result |-> "", sleeps |-> <<>>]
    /\ features = <<>> /\ rail = <<>> /\ th_elems = <<>> /\ am_elems = <<>>
    /\ overpass = <<AllMirrors("ok"), AllMirrors("ok")>> /\ requests = <<>>
    /\ parsed = <<>>
    /\ prev = <<>> /\ merge_log = <<>> /\ am_placed = <<>>
    /\ nl_name = <<>> /\ nl_routes = {} /\ nl_order = <<>> /\ nl_out = <<>> /\ nl_out2 = <<>>

\* An iteration of the loop: the request and what follows from its outcome.
DownloadAttempt ==
    /\ pc = "dl_loop"
    /\ dl.attempt < dl.max_retries
    /\ dl' = download_step(dl)
    /\ pc' = IF dl'.result # "" THEN "dl_done" ELSE "dl_loop"
    /\ UNCHANGED <<features, rail, th_elems, am_elems, overpass, requests, prev, merge_log,
                   am_placed, parsed, textVars>>

\* The loop has ended: logger.error(...); return False
DownloadGiveUp ==
    /\ pc = "dl_loop"
    /\ dl.attempt >= dl.max_retries
    /\ dl' = [dl EXCEPT !.result = "False"]
    /\ pc' = "dl_done"
    /\ UNCHANGED <<features, rail, th_elems, am_elems, overpass, requests, prev, merge_log,
                   am_placed, parsed, textVars>>

NextDownload == DownloadAttempt \/ DownloadGiveUp

SpecDownload == InitDownload /\ [][NextDownload]_vars

----------------------------------------------------------------------------
(* osm_trails_to_loom.py: OSMTrailDownloader.parse_osm_xml.  A way of the  *)
(* file is [id, tags, nds]; an <nd> carries its own lat/lon ("inline"),    *)
(* refers to a <node> of the file ("ref") or to a node that is not in the  *)
(* file ("missing").                                                       *)

\* Largest number of ways in a file
MaxWays == 3

WayTags == {<<>>, [name |-> <<"Test", " ", "Trail">>, highway |-> "path"], [highway |-> "footway"]}

WayNds == {<<>>, <<"inline">>, <<"ref", "missing">>, <<"inline", "inline">>,
           <<"ref", "missing", "ref">>}

WayIds == <<"100", "101", "102", "103">>

OsmFiles ==
    UNION {{[k \in 1..n |-> [id |-> WayIds[((k - 1) % Len(WayIds)) + 1], tags |-> tg[k], nds |-> nd[k]]]
              : tg \in [1..n -> WayTags], nd \in [1..n -> WayNds]}
           : n \in 0..MaxWays}

\* coords of a way: the <nd> elements that have a position
WayCoords(way) == SelectSeq(way.nds, LAMBDA nd : nd \in {"inline", "ref"})

\* The trail made from a way
TrailOf(way) ==
    [id |-> way.id,
     name |-> IF "name" \in DOMAIN way.tags THEN way.tags.name
              ELSE <<"Unnamed trail ", way.id>>,
     type |-> Get(way.tags, "highway", Get(way.tags, "tourism", "unknown")),
     coordinates |-> WayCoords(way)]

\* self.trails after the loop over the ways of the file
parse_ways(ways) ==
    LET keep == SelectSeq(ways, LAMBDA w : Len(WayCoords(w)) > 1)
    IN  [k \in 1..Len(keep) |-> TrailOf(keep[k])]

InitParse ==
    /\ pc = "px_start"
    /\ \E ways \in OsmFiles : \E file \in {"ok", "missing", "invalid"} :
          parsed = [file |-> file, ways |-> ways, trails |-> <<>>, result |-> ""]
    /\ features = <<>> /\ rail = <<>> /\ th_elems = <<>> /\ am_elems = <<>>
    /\ overpass = <<AllMirrors("ok"), AllMirrors("ok")>> /\ requests = <<>>
    /\ dl = <<>>
    /\ prev = <<>> /\ merge_log = <<>> /\ am_placed = <<>>
    /\ nl_name = <<>> /\ nl_routes = {} /\ nl_order = <<>> /\ nl_out = <<>> /\ nl_out2 = <<>>

\* parse_osm_xml(file_path): False for a file that does not exist or is no
\* XML, else self.trails is rebuilt and True returned.
ParseOsmXml ==
    /\ pc = "px_start"
    /\ parsed' = IF parsed.file = "ok"
                 THEN [parsed EXCEPT !.trails = parse_ways(parsed.ways), !.result = "True"]
                 ELSE [parsed EXCEPT !.result = "False"]
    /\ pc' = "px_done"
    /\ UNCHANGED <<features, rail, th_elems, am_elems, overpass, requests, prev, merge_log,
                   am_placed, dl, textVars>>

NextParse == ParseOsmXml

SpecParse == InitParse /\ [][NextParse]_vars

----------------------------------------------------------------------------
(* _classify_trail_node on its own: step 3 of merge_rail_into_trails applied *)
(* to one Point, and applied again to the result.                           *)

\* The dicts with every key of Keys missing or set to one of its values.
RECURSIVE Dicts(_, _)
Dicts(Keys, Vals) ==
    IF Keys = {} THEN {<<>>}
    ELSE LET k == CHOOSE x \in Keys : TRUE
             rest == Dicts(Keys \ {k}, Vals)
         IN  rest \cup {(k :> v) @@ d : v \in Vals[k], d \in rest}

\* Largest stored degree of a classified node
MaxDeg == 3

ClassifierInputs ==
    Dicts({"node_type", "station_label", "osm_named", "deg", "id"},
          [node_type |-> NodeTypes \cup {"", "absorbed"},
           station_label |-> {<<>>, <<" ">>, Betzwood, <<" ", "Betzwood">>},
           osm_named |-> BOOLEAN,
           deg |-> 0..MaxDeg,
           id |-> {<<"n1">>, <<"th_", "101">>, <<"rail_", "s1">>}])

InitClassify ==
    /\ pc = "cl_start"
    /\ \E props \in ClassifierInputs :
          features = <<[type |-> "Point", coordinates |-> <<0, 0>>, properties |-> props]>>
    /\ rail = <<>> /\ th_elems = <<>> /\ am_elems = <<>>
    /\ overpass = <<AllMirrors("ok"), AllMirrors("ok")>> /\ requests = <<>>
    /\ dl = <<>> /\ parsed = <<>>
    /\ prev = <<>> /\ merge_log = <<>> /\ am_placed = <<>>
    /\ nl_name = <<>> /\ nl_routes = {} /\ nl_order = <<>> /\ nl_out = <<>> /\ nl_out2 = <<>>

\* ntype, pri = _classify_trail_node(props); props["node_type"] = ntype;
\* props["priority"] = pri
ClassifyOnce ==
    /\ pc = "cl_start"
    /\ features' = [i \in 1..Len(features) |-> ClassifyFeature(features[i])]
    /\ prev' = features
    /\ pc' = "cl_once"
    /\ UNCHANGED <<rail, th_elems, am_elems, overpass, requests, merge_log, am_placed, textVars, osmVars>>

\* the same on the classified node
ClassifyAgain ==
    /\ pc = "cl_once"
    /\ features' = [i \in 1..Len(features) |-> ClassifyFeature(features[i])]
    /\ prev' = features
    /\ pc' = "cl_done"
    /\ UNCHANGED <<rail, th_elems, am_elems, overpass, requests, merge_log, am_placed, textVars, osmVars>>

NextClassify == ClassifyOnce \/ ClassifyAgain

SpecClassify == InitClassify /\ [][NextClassify]_vars

----------------------------------------------------------------------------
(* Properties of normalize_label (checked under SpecText) *)

NormalizeCalled == pc \in {"nl_once", "nl_done"}

\* re.search(r"\b" + re.escape(r) + r"\b", s, re.IGNORECASE) is not None
OccursWhole(s, r) == \E i \in 1..Len(s) : RouteMatchAt(s, r, i)

\* C4: normalize_label is idempotent: a second call on the result, with the
\* same route names, returns the result unchanged.
C4_Idempotent == pc = "nl_done" => nl_out2 = nl_out

\* C5: the result is the route-stripped, connector-cleaned text when that
\* has at least 3 characters, else the suffix-stripped text when that has at
\* least 3 characters, else the raw name; so it has at least 3 characters or
\* is the input; "Betzwood Trailhead" with no routes gives "Betzwood".
C5_FallbackChain ==
    NormalizeCalled =>
        LET cleaned == AfterRoutes(nl_name, nl_order)
            stripped == AfterSuffix(nl_name)
        IN  /\ nl_out = IF StrLen(cleaned) >= LabelFloor THEN cleaned
                        ELSE IF StrLen(stripped) >= LabelFloor THEN stripped
                        ELSE nl_name
            /\ (StrLen(nl_out) >= LabelFloor \/ nl_out = nl_name)
            /\ ((nl_name = <<"Betzwood", " ", "Trailhead">> /\ nl_routes = {})
                 => nl_out = <<"Betzwood">>)

\* A call in which route stripping went below the floor and the
\* suffix-stripped text, different from the input, was returned.
C5_Witness ==
    /\ pc = "nl_once"
    /\ StrLen(AfterRoutes(nl_name, nl_order)) < LabelFloor
    /\ StrLen(AfterSuffix(nl_name)) >= LabelFloor
    /\ nl_out = AfterSuffix(nl_name)
    /\ nl_out # nl_name
    /\ StripRoutes(AfterSuffix(nl_name), nl_order) # AfterSuffix(nl_name)

\* C6 as claimed: every route name that occurs as whole words in the
\* suffix-stripped label is gone from the result, unless removing it would
\* leave fewer than 3 characters.
C6_EveryRouteStripped ==
    NormalizeCalled =>
        \A r \in nl_routes :
            LET base == AfterSuffix(nl_name)
            IN  (OccursWhole(base, r)
                 /\ StrLen(CandidateClean(RemoveRoute(base, r))) >= LabelFloor)
                => ~OccursWhole(nl_out, r)

\* C6 as amended: a route name of at least 5 characters is gone from the
\* result unless removing it would leave fewer than 3 characters or the
\* cleaned text fell below the floor (the suffix-stripped label is then
\* returned whole); names shorter than 5 characters have no effect at all;
\* longer names are tried first; scenario 2.
C6_LongRoutesStripped ==
    NormalizeCalled =>
        /\ \A r \in nl_routes :
              (StrLen(r) >= MinRouteLen /\ OccursWhole(nl_out, r))
                  => \/ StrLen(CandidateClean(RemoveRoute(nl_out, r))) < LabelFloor
                     \/ StrLen(AfterRoutes(nl_name, nl_order)) < LabelFloor
        /\ ((\A r \in nl_routes : StrLen(r) < MinRouteLen)
                => nl_out = normalize_label(nl_name, <<>>))
        /\ ((nl_name = <<"Audubon", " ", "Loop", " ", "Trail", " ", "Trailhead">>
              /\ nl_routes = {<<"Audubon", " ", "Loop", " ", "Trail">>})
             => nl_out = <<"Audubon", " ", "Loop", " ", "Trail">>)
        /\ ((nl_name = <<"Betzwood", " ", "Loop", " ", "Trail">>
              /\ nl_routes = {<<"Loop", " ", "Trail">>, <<"Trail">>})
             => nl_out = <<"Betzwood">>)

\* A call that removed a long route name and kept a short one.
C6_Witness ==
    /\ pc = "nl_once"
    /\ \E r \in nl_routes :
          /\ StrLen(r) >= MinRouteLen
          /\ OccursWhole(AfterSuffix(nl_name), r)
          /\ ~OccursWhole(nl_out, r)
    /\ \E r \in nl_routes :
          /\ StrLen(r) < MinRouteLen
          /\ OccursWhole(AfterSuffix(nl_name), r)
          /\ OccursWhole(nl_out, r)

----------------------------------------------------------------------------
(* Properties of the pipeline (checked under Spec) *)

PointIds(fs) == {IdOf(fs[i]) : i \in PointIdx(fs)}

\* The Point of id nid in fs (ids are unique in the inputs of Init).
PointOf(fs, nid) == fs[id_to_point(fs, nid)]

StationId(f) == Get(f.properties, "station_id", <<>>)

\* A hidden node: label and station_id empty, degree counters zero.
Hidden(f) ==
    /\ Len(LabelOf(f)) = 0
    /\ Len(StationId(f)) = 0
    /\ Get(f.properties, "deg", 2) = 0
    /\ Get(f.properties, "deg_in", 2) = 0
    /\ Get(f.properties, "deg_out", 2) = 0

RailMerged == pc # "merge_rail" /\ Len(rail) > 0

\* C1: the edges of the inputs of Init name points of their own graph, and
\* after the full pipeline every edge's from and to is the id of a Point of
\* the resulting collection.
C1_ReferentialIntegrity ==
    pc = "done" =>
        \A e \in LineIdx(features) :
            /\ EndOf(features[e], "from") \in PointIds(features)
            /\ EndOf(features[e], "to") \in PointIds(features)

\* The pipeline has ended with a trail edge re-pointed to a rail station and
\* an edge split at a synthetic trailhead.
C1_Witness ==
    /\ pc = "done"
    /\ \E e \in LineIdx(features) :
          /\ RiverTrail \in {LinesOf(features[e])[k] : k \in 1..Len(LinesOf(features[e]))}
          /\ EndOf(features[e], "to")[1] = "rail_"
    /\ \E e \in LineIdx(features) : StartsWithTh(EndOf(features[e], "from"))

\* The trail points a rail station has claimed after the first k stations
\* were processed: each takes its nearest unclaimed trail point if that is
\* closer than RAIL_STATION_MERGE_DIST.
RECURSIVE Claimed(_, _, _)
Claimed(tfs, rpts, k) ==
    IF k = 0 THEN {}
    ELSE LET before == Claimed(tfs, rpts, k - 1)
             D(i) == Dist2(rpts[k].coordinates, tfs[i].coordinates)
             best == NearestIdx(PointIdx(tfs) \ before, [di \in PointIdx(tfs) \ before |-> D(di)])
         IN  IF best # 0 /\ D(best) < Sq(RAIL_STATION_MERGE_DIST)
             THEN before \cup {best} ELSE before

AbsorbedBy(tfs, rpts, k) == Claimed(tfs, rpts, k) \ Claimed(tfs, rpts, k - 1)

RailInputPoints == SelectSeq2(rail, PointIdx(rail))

\* C10: right after merge_rail_into_trails, a trail node that was the
\* nearest unclaimed node of a rail station and closer than
\* RAIL_STATION_MERGE_DIST is hidden with node_type absorbed, every trail
\* edge that named it names the station's prefixed id and has that end of its
\* polyline at the station, and the station keeps coordinates and label.
C10_Absorption ==
    (pc = "add_trailheads" /\ Len(rail) > 0) =>
        \A k \in 1..Len(RailInputPoints) : \A i \in AbsorbedBy(prev, RailInputPoints, k) :
            LET station == RailInputPoints[k]
                rail_id == <<"rail_">> \o IdOf(station)
                nrp == Len(RailInputPoints)
                old_id == IdOf(prev[i])
            IN  /\ Hidden(features[nrp + i])
                /\ NodeType(features[nrp + i]) = "absorbed"
                /\ \A e \in LineIdx(prev) :
                      /\ EndOf(prev[e], "from") = old_id =>
                            /\ EndOf(features[nrp + e], "from") = rail_id
                            /\ features[nrp + e].coordinates[1] = station.coordinates
                      /\ EndOf(prev[e], "to") = old_id =>
                            /\ EndOf(features[nrp + e], "to") = rail_id
                            /\ features[nrp + e].coordinates[Len(features[nrp + e].coordinates)]
                                   = station.coordinates
                /\ IdOf(features[k]) = rail_id
                /\ features[k].coordinates = station.coordinates
                /\ LabelOf(features[k]) = LabelOf(station)

\* A station off the trail has absorbed a labelled node that two edges named.
C10_Witness ==
    /\ pc = "add_trailheads"
    /\ Len(rail) > 0
    /\ \E k \in 1..Len(RailInputPoints) : \E i \in AbsorbedBy(prev, RailInputPoints, k) :
          /\ HasLabel(prev[i])
          /\ prev[i].coordinates # RailInputPoints[k].coordinates
          /\ \E e \in LineIdx(prev) : EndOf(prev[e], "from") = IdOf(prev[i])
          /\ \E e \in LineIdx(prev) : EndOf(prev[e], "to") = IdOf(prev[i])

\* C7: once merge_rail_into_trails has classified the graph, the priority
\* of every Point is the table value of its node_type (the value the lookup
\* _NODE_PRIORITY.get(node_type, 10) gives), after every pass.
C7_PriorityMatchesType ==
    RailMerged =>
        \A i \in PointIdx(features) :
            /\ "node_type" \in DOMAIN features[i].properties
            /\ "priority" \in DOMAIN features[i].properties
            /\ features[i].properties.priority = NODE_PRIORITY_get(NodeType(features[i]))

\* C8: a Point that is hidden before a pass is still in the collection and
\* still hidden after it.
C8_HiddenStayHidden ==
    \A i \in PointIdx(prev) :
        Hidden(prev[i]) =>
            /\ IdOf(prev[i]) \in PointIds(features)
            /\ Hidden(PointOf(features, IdOf(prev[i])))

\* C9: a rail_station Point that has a label, a station_id or non-zero
\* degree counters before a pass still has them after it.
C9_RailAnchorsKept ==
    \A i \in PointIdx(prev) :
        NodeType(prev[i]) = "rail_station" =>
            LET old == prev[i]
                now == PointOf(features, IdOf(old))
            IN  /\ HasLabel(old) => HasLabel(now)
                /\ Len(StationId(old)) > 0 => Len(StationId(now)) > 0
                /\ \A k \in {"deg", "deg_in", "deg_out"} :
                      Get(old.properties, k, 2) # 0 => Get(now.properties, k, 2) # 0

\* Two labelled Points of fs closer than twice TRAILHEAD_MATCH_DIST whose
\* labels are equal ignoring case.
SameLabelNear(fs, i, j) ==
    /\ i \in PointIdx(fs) /\ j \in PointIdx(fs) /\ i < j
    /\ HasLabel(fs[i]) /\ HasLabel(fs[j])
    /\ LowerStr(Strip(LabelOf(fs[i]))) = LowerStr(Strip(LabelOf(fs[j])))
    /\ Dist2(fs[i].coordinates, fs[j].coordinates) < Sq(2 * TRAILHEAD_MATCH_DIST)

\* C2: after normalize_labels no two Points closer than twice
\* TRAILHEAD_MATCH_DIST carry non-empty labels that are equal ignoring case.
C2_LabelsUnique ==
    pc = "merge_nearby_endpoints" =>
        \A i, j \in 1..Len(features) : ~SameLabelNear(features, i, j)

\* The labels as the normalisation loop of the last normalize_labels left
\* them, before its de-duplication loop.
Normalized == [i \in 1..Len(prev) |-> NormalizeFeature(prev[i], nl_order)]

\* The node of a colliding pair the tie-break order names, 0 when the two
\* are tied in priority, provenance and degree.
Keeper(fs, i, j) ==
    LET pri(n) == Get(fs[n].properties, "priority", 0)
        named(n) == Get(fs[n].properties, "osm_named", FALSE)
        deg(n) == Get(fs[n].properties, "deg", 2)
    IN  IF pri(i) # pri(j) THEN (IF pri(i) > pri(j) THEN i ELSE j)
        ELSE IF named(i) # named(j) THEN (IF named(i) THEN i ELSE j)
        ELSE IF deg(i) # deg(j) THEN (IF deg(i) < deg(j) THEN i ELSE j)
        ELSE 0

\* C3: of two labelled nodes with labels equal ignoring case and closer than
\* twice the match distance, exactly one keeps a non-empty label after the
\* de-duplication, the other has station_label and station_id cleared, and
\* the keeper is the one of higher priority, else the osm_named one, else the
\* one of lower degree.
C3_DedupWinner ==
    pc = "merge_nearby_endpoints" =>
        \A i, j \in 1..Len(prev) :
            SameLabelNear(Normalized, i, j) =>
                LET k == Keeper(Normalized, i, j)
                    kept == {n \in {i, j} : HasLabel(features[n])}
                IN  /\ Cardinality(kept) = 1
                    /\ \A n \in {i, j} \ kept :
                          Len(LabelOf(features[n])) = 0 /\ Len(StationId(features[n])) = 0
                    /\ k # 0 => kept = {k}

\* C3 for the pairs that have no third node of the same label near either.
C3_DedupWinnerOfPair ==
    pc = "merge_nearby_endpoints" =>
        \A i, j \in 1..Len(prev) :
            (/\ SameLabelNear(Normalized, i, j)
             /\ \A n \in 1..Len(prev) \ {i, j} :
                   /\ ~SameLabelNear(Normalized, n, i) /\ ~SameLabelNear(Normalized, i, n)
                   /\ ~SameLabelNear(Normalized, n, j) /\ ~SameLabelNear(Normalized, j, n)) =>
                LET k == Keeper(Normalized, i, j)
                    kept == {n \in {i, j} : HasLabel(features[n])}
                IN  /\ Cardinality(kept) = 1
                    /\ \A n \in {i, j} \ kept :
                          Len(LabelOf(features[n])) = 0 /\ Len(StationId(features[n])) = 0
                    /\ k # 0 => kept = {k}

\* The trail points of prev that merge_rail_into_trails gave to the k-th
\* rail station: absorbed, with an edge end moved to that station.
TakenBy(k) ==
    LET nrp == Len(RailInputPoints)
    IN  {i \in PointIdx(prev) :
            /\ NodeType(features[nrp + i]) = "absorbed"
            /\ \E e \in LineIdx(prev) : \E key \in {"from", "to"} :
                  /\ EndOf(prev[e], key) = IdOf(prev[i])
                  /\ EndOf(features[nrp + e], key) = IdOf(features[k])}

\* The trail points no station before the k-th has taken.
FreeFor(k) == PointIdx(prev) \ UNION {TakenBy(j) : j \in 1..(k - 1)}

StationDist2(k, i) == Dist2(RailInputPoints[k].coordinates, prev[i].coordinates)

\* C11: right after merge_rail_into_trails, with the stations taken in rail
\* input order, each station has absorbed at most one trail node, that node
\* was not taken by an earlier station, is closer than the threshold and is
\* a nearest of the nodes still free; a station whose free nodes are all
\* beyond the threshold absorbed nothing, one with a free node closer than
\* the threshold absorbed one; every absorbed node belongs to one station.
C11_GreedyExclusive ==
    (pc = "add_trailheads" /\ Len(rail) > 0) =>
        LET nrp == Len(RailInputPoints)
        IN  /\ \A i \in PointIdx(prev) :
                  NodeType(features[nrp + i]) = "absorbed"
                      => Cardinality({k \in 1..nrp : i \in TakenBy(k)}) = 1
            /\ \A k \in 1..nrp :
                  /\ Cardinality(TakenBy(k)) <= 1
                  /\ \A i \in TakenBy(k) :
                        /\ i \in FreeFor(k)
                        /\ StationDist2(k, i) < Sq(RAIL_STATION_MERGE_DIST)
                        /\ \A j \in FreeFor(k) : StationDist2(k, i) <= StationDist2(k, j)
                  /\ ((\A j \in FreeFor(k) : StationDist2(k, j) > Sq(RAIL_STATION_MERGE_DIST))
                        => TakenBy(k) = {})
                  /\ ((\E j \in FreeFor(k) : StationDist2(k, j) < Sq(RAIL_STATION_MERGE_DIST))
                        => TakenBy(k) # {})

\* The second station's nearest trail node went to the first station and the
\* second took the next nearest; elsewhere a station took nothing.
C11_Witness ==
    /\ pc = "add_trailheads"
    /\ Len(RailInputPoints) = 2
    /\ \E i \in TakenBy(1) : \E j \in TakenBy(2) :
          /\ i # j
          /\ StationDist2(2, i) < StationDist2(2, j)

\* The entries of the log that pass 1 / the cascade of the last
\* merge_nearby_endpoints wrote.
Pass1Merges == {k \in 1..Len(merge_log) : merge_log[k].pass = 1}
CascadeMerges == {k \in 1..Len(merge_log) : merge_log[k].pass = 2}

\* A candidate target: a labelled node, or a rail station.
Targetable(f) == HasLabel(f) \/ NodeType(f) = "rail_station"

MergeDist2(fs, a, b) == Dist2(PointOf(fs, a).coordinates, PointOf(fs, b).coordinates)

\* C12: every merge of pass 1 of merge_nearby_endpoints takes a degree-1
\* endpoint that is no rail station into a labelled node or rail station
\* that shares no line id with the endpoint, lies within ENDPOINT_MERGE_DIST
\* of it and is a nearest of the candidates that share no line with it.
C12_DifferentTrailOnly ==
    pc = "add_amenities" =>
        \A k \in Pass1Merges :
            LET ep == merge_log[k].node
                t == merge_log[k].into
            IN  /\ node_deg(prev, ep) = 1
                /\ NodeType(PointOf(prev, ep)) # "rail_station"
                /\ Targetable(PointOf(prev, t))
                /\ node_lines(prev, ep) \cap node_lines(prev, t) = {}
                /\ MergeDist2(prev, ep, t) <= Sq(ENDPOINT_MERGE_DIST)
                /\ \A c \in PointIdx(prev) :
                      (/\ Targetable(prev[c])
                       /\ IdOf(prev[c]) # ep
                       /\ node_lines(prev, ep) \cap node_lines(prev, IdOf(prev[c])) = {})
                          => MergeDist2(prev, ep, t) <= MergeDist2(prev, ep, IdOf(prev[c]))

\* C13: every node the cascade of merge_nearby_endpoints absorbs is a
\* labelled node, lies within ENDPOINT_MERGE_DIST of its target, shares none
\* of the line ids the target had before the call, and is absorbed in one
\* of at most 3 rounds walked from a target that received a pass-1 merge.
C13_CascadeEligibility ==
    pc = "add_amenities" =>
        \A k \in CascadeMerges :
            LET nbr == merge_log[k].node
                t == merge_log[k].into
            IN  /\ HasLabel(PointOf(prev, nbr))
                /\ MergeDist2(prev, nbr, t) <= Sq(ENDPOINT_MERGE_DIST)
                /\ node_lines(prev, nbr) \cap node_lines(prev, t) = {}
                /\ merge_log[k].hop \in 1..MaxHops
                /\ \E m \in Pass1Merges : merge_log[m].into = t

----------------------------------------------------------------------------
(* Properties of _classify_trail_node (checked under SpecClassify) *)

\* C14: the classifier returns a node_type that is set unchanged; else
\* named_trailhead for an osm_named labelled node, else synthetic_trailhead
\* for a labelled node whose id starts with th_, else named_trailhead for a
\* labelled node, else unnamed_endpoint for deg 1, else unnamed_interior
\* (deg counts as 2 when absent); the priority is the table value of the
\* type; classifying the classified node returns the same pair.
C14_DecisionOrder ==
    /\ pc = "cl_once" =>
          LET p == prev[1].properties
              out == features[1].properties
              isSet == Get(p, "node_type", "") # ""
              lab == HasLabel(prev[1])
              osm == Get(p, "osm_named", FALSE)
              th == StartsWithTh(Get(p, "id", <<>>))
              deg == IF "deg" \in DOMAIN p THEN p.deg ELSE 2
          IN  /\ isSet => out.node_type = p.node_type
              /\ (~isSet /\ lab /\ osm) => out.node_type = "named_trailhead"
              /\ (~isSet /\ lab /\ ~osm /\ th) => out.node_type = "synthetic_trailhead"
              /\ (~isSet /\ lab /\ ~osm /\ ~th) => out.node_type = "named_trailhead"
              /\ (~isSet /\ ~lab /\ deg = 1) => out.node_type = "unnamed_endpoint"
              /\ (~isSet /\ ~lab /\ deg # 1) => out.node_type = "unnamed_interior"
              /\ out.node_type \in NodeTypes => out.priority = NODE_PRIORITY(out.node_type)
              /\ \A k \in DOMAIN p \ {"node_type", "priority"} : out[k] = p[k]
    /\ pc = "cl_done" => features = prev

\* An osm_named labelled node with a th_ id was classified named_trailhead,
\* and classified again.
C14_Witness ==
    /\ pc = "cl_done"
    /\ Get(features[1].properties, "osm_named", FALSE)
    /\ StartsWithTh(IdOf(features[1]))
    /\ HasLabel(features[1])
    /\ features[1].properties.node_type = "named_trailhead"
    /\ features[1].properties.priority = 50

----------------------------------------------------------------------------
(* Properties of the pipeline, continued (checked under Spec) *)

\* {r.lower() for r in route_names} of the collection fs
RouteNamesLower(fs) == {LowerStr(r) : r \in RouteNames(fs)}

\* The label normalize_label gives the Point f in the last normalize_labels.
NormalLabel(f) == normalize_label(Strip(LabelOf(f)), nl_order)

AmenityElems == ParkingLast(am_elems)
CategoryOf(e) == IF Len(IconOf(e.tags)) = 0 THEN "" ELSE IconOf(e.tags)[2]
SnapDistOf(e) == IF CategoryOf(e) = "parking" THEN TRAILHEAD_MATCH_DIST ELSE AMENITY_MATCH_DIST

AmenitiesAdded == pc = "filter_nodes" /\ overpass[2] = AllMirrors("ok")

\* The icon tokens in a label.
IconsIn(label) == {label[k] : k \in 1..Len(label)} \cap {ICON_ORDER[k] : k \in 1..Len(ICON_ORDER)}

\* C16: when add_amenities has ended, the placed observations of one
\* category are pairwise at least AMENITY_MIN_SPACING apart, so an
\* observation closer than that to one placed before it is not placed; an
\* icon a node received comes from a placed observation of its category
\* within the snap distance; an observation with a node within the snap
\* distance and no other observation of its own category closer than the
\* spacing is placed, whatever observations of other categories lie near it.
C16_MinimumSpacing ==
    AmenitiesAdded =>
        /\ \A t \in DOMAIN am_placed : \A p, q \in am_placed[t] :
              p # q => Dist2(p, q) >= Sq(AMENITY_MIN_SPACING)
        /\ \A i \in PointIdx(features) :
              \A ic \in IconsIn(LabelOf(features[i])) \ IconsIn(LabelOf(prev[i])) :
                 \/ ic = "{P}" /\ Get(prev[i].properties, "has_parking", FALSE)
                 \/ \E k \in 1..Len(AmenityElems) :
                       LET e == AmenityElems[k]
                       IN  /\ Len(IconOf(e.tags)) > 0
                           /\ IconOf(e.tags)[1] = ic
                           /\ e.pos \in Get(am_placed, CategoryOf(e), {})
                           /\ Dist2(e.pos, features[i].coordinates) <= Sq(SnapDistOf(e))
        /\ \A k \in 1..Len(AmenityElems) :
              LET e == AmenityElems[k]
              IN  (/\ CategoryOf(e) \notin {"", "parking"}
                   /\ \E i \in PointIdx(prev) :
                         Dist2(e.pos, prev[i].coordinates) <= Sq(AMENITY_MATCH_DIST)
                   /\ \A j \in 1..Len(AmenityElems) :
                         (j # k /\ CategoryOf(AmenityElems[j]) = CategoryOf(e))
                             => Dist2(AmenityElems[j].pos, e.pos) >= Sq(AMENITY_MIN_SPACING))
                      => e.pos \in Get(am_placed, CategoryOf(e), {})

\* Scenario 5: of two water observations 3 units apart the first was placed
\* and the second was not and its node has no water icon, toilets at the
\* place of the second were placed, and a third water observation exactly
\* AMENITY_MIN_SPACING from the first was placed as well.
C16_Witness ==
    /\ AmenitiesAdded
    /\ am_elems = MergeAmenities \o <<Water203, Toilets204, Water205>>
    /\ am_placed["water"] = {MergeAmenities[1].pos, Water205.pos}
    /\ am_placed["toilets"] = {Toilets204.pos}
    /\ \E i \in PointIdx(features) :
          /\ features[i].coordinates = Water203.pos
          /\ IconsIn(LabelOf(features[i])) = {"{WC}"}

\* The icons of a label, in the order they stand in it.
IconSeq(label) == SelectSeq(label, LAMBDA t : t \in IconsIn(label))

\* C17: a node that received amenity icons has as its label its label from
\* before add_amenities followed by its icons, and the icons stand in the
\* order restroom, water, repair, information, parking, each at most once,
\* in whatever order the observations arrived.
C17_IconsAfterLabel ==
    AmenitiesAdded =>
        \A i \in PointIdx(features) :
            LabelOf(features[i]) # LabelOf(prev[i]) =>
                LET base == Strip(LabelOf(prev[i]))
                    label == LabelOf(features[i])
                IN  /\ IconSeq(label) = SelectSeq(ICON_ORDER, LAMBDA t : t \in IconsIn(label))
                    /\ Len(base) > 0 =>
                          /\ Len(label) > Len(base)
                          /\ SubSeq(label, 1, Len(base)) = base
                          /\ IconsIn(SubSeq(label, Len(base) + 1, Len(label))) = IconsIn(label)

\* The keys filter_nodes and _hide overwrite.
HiddenKeys == DOMAIN HiddenProps

\* filter_nodes hides the Point f of the collection fs.
Prunable(fs, f) ==
    /\ IsPoint(f)
    /\ ~HasLabel(f)
    /\ NodeType(f) # "rail_station"
    /\ node_deg(fs, IdOf(f)) # 1

\* C18: filter_nodes hides exactly the Points without a label that are no
\* rail stations and have a number of incident edge ends other than 1,
\* whatever their stored deg says: these get station_id and station_label
\* empty and the degree counters 0 and keep their other properties; every
\* other feature, edges included, is as before.
C18_PrunerContract ==
    pc = "done" =>
        /\ Len(features) = Len(prev)
        /\ \A i \in 1..Len(prev) :
              IF Prunable(prev, prev[i])
              THEN /\ Hidden(features[i])
                   /\ features[i].type = prev[i].type
                   /\ features[i].coordinates = prev[i].coordinates
                   /\ DOMAIN features[i].properties = DOMAIN prev[i].properties \cup HiddenKeys
                   /\ \A k \in DOMAIN prev[i].properties \ HiddenKeys :
                         features[i].properties[k] = prev[i].properties[k]
              ELSE features[i] = prev[i]

\* filter_nodes has hidden a visible interior node, and has kept a labelled
\* node that is no endpoint and an unlabelled node with one edge of which
\* the stored deg is 2.
C18_Witness ==
    /\ pc = "done"
    /\ \E i \in PointIdx(prev) :
          /\ Prunable(prev, prev[i])
          /\ ~Hidden(prev[i])
          /\ node_deg(prev, IdOf(prev[i])) = 2
          /\ Hidden(features[i])
    /\ \E i \in PointIdx(prev) :
          /\ ~HasLabel(prev[i]) /\ NodeType(prev[i]) # "rail_station"
          /\ node_deg(prev, IdOf(prev[i])) = 1
          /\ Get(prev[i].properties, "deg", 2) = 2
          /\ features[i] = prev[i]
    /\ \E i \in PointIdx(prev) :
          /\ HasLabel(prev[i]) /\ NodeType(prev[i]) # "rail_station"
          /\ node_deg(prev, IdOf(prev[i])) # 1
          /\ features[i] = prev[i]

\* Every Point of fs stands before every LineString of fs.
PointsFirst(fs) ==
    \A i, j \in 1..Len(fs) : (IsPoint(fs[i]) /\ ~IsPoint(fs[j])) => i < j

\* C19: the inputs have their Points first, and so has the collection after
\* merge_rail_into_trails, after add_trailheads and after every later pass.
C19_PointsBeforeLineStrings ==
    PointsFirst(features)

\* C20: the Points of the graph have pairwise distinct ids in every state
\* of the pipeline, the synthetic trailheads included.
C20_PointIdsDistinct ==
    \A i, j \in PointIdx(features) :
        i # j => IdOf(features[i]) # IdOf(features[j])

\* The graphs merge_nearby_endpoints can return for the collection fs, over
\* all orders in which its sets are iterated.
MergeResults(fs) == {o.fs : o \in merge_nearby_endpoints(fs)}

\* C21: merge_nearby_endpoints returns one graph for one input, whatever
\* the order in which merged_targets and the frontier sets are iterated.
C21_MergeDeterministic ==
    pc = "merge_nearby_endpoints" => Cardinality(MergeResults(features)) = 1

\* The polyline of every edge of fs begins at the position of a Point that
\* has the id of its "from" and ends at the position of a Point that has
\* the id of its "to".
EndsMatch(fs) ==
    \A e \in LineIdx(fs) :
        /\ Len(fs[e].coordinates) >= 2
        /\ \E i \in PointIdx(fs) : /\ IdOf(fs[i]) = EndOf(fs[e], "from")
                                  /\ fs[i].coordinates = fs[e].coordinates[1]
        /\ \E i \in PointIdx(fs) : /\ IdOf(fs[i]) = EndOf(fs[e], "to")
                                  /\ fs[i].coordinates = fs[e].coordinates[Len(fs[e].coordinates)]

\* C22: when the polylines of the graph (for merge_rail_into_trails: of the
\* trail graph and of the rail graph) end at their nodes before the pass,
\* they do so after merge_rail_into_trails, after add_trailheads and after
\* merge_nearby_endpoints, self-loops included.
C22_PolylineEndsFollow ==
    /\ (pc = "add_trailheads" /\ EndsMatch(prev) /\ EndsMatch(rail)) => EndsMatch(features)
    /\ (pc \in {"normalize_labels", "add_amenities"} /\ EndsMatch(prev)) => EndsMatch(features)

\* merge_nearby_endpoints has re-pointed edges in pass 1 and in the cascade
\* and has made a self-loop, in a graph with a rail station that absorbed a
\* trail node and with an edge that add_trailheads has split.
C22_Witness ==
    /\ pc = "add_amenities"
    /\ EndsMatch(prev)
    /\ \E k \in 1..Len(merge_log) : merge_log[k].pass = 2
    /\ \E e \in LineIdx(features) :
          /\ EndOf(features[e], "from") = EndOf(features[e], "to")
          /\ EndOf(prev[e], "from") # EndOf(prev[e], "to")
          /\ features[e].coordinates # prev[e].coordinates
    /\ \E i \in PointIdx(features) : NodeType(features[i]) = "absorbed"
    /\ \E i \in PointIdx(features) : StartsWithTh(IdOf(features[i]))

\* The squared distance from observation e to the nearest Point of fs.
NearDist2(fs, e) ==
    LET ds == {Dist2(e.pos, fs[i].coordinates) : i \in PointIdx(fs)}
    IN  CHOOSE d \in ds : \A x \in ds : d <= x

\* Observation e has a node within the radius of its category.
InReach(fs, e) == PointIdx(fs) # {} /\ NearDist2(fs, e) <= Sq(SnapDistOf(e))

\* Observation e was recorded as placed.
IsPlaced(e) == e.pos \in Get(am_placed, CategoryOf(e), {})

IconNodesInReach(e) ==
    {i \in PointIdx(features) :
        /\ IconsIn(LabelOf(features[i])) \ {"{P}"} # {}
        /\ Dist2(e.pos, features[i].coordinates) <= Sq(SnapDistOf(e))}

\* The Points that received the parking icon in the pass.
NewParkingNodes ==
    {i \in PointIdx(features) :
        /\ "{P}" \in IconsIn(LabelOf(features[i])) \ IconsIn(LabelOf(prev[i]))
        /\ ~Get(prev[i].properties, "has_parking", FALSE)}

\* C24: every icon other than parking is in place when a parking
\* observation is snapped, wherever it stood in the answer: a placed parking
\* observation has its icon on the nearest of the nodes within
\* TRAILHEAD_MATCH_DIST that show another icon, if there is one, also when
\* a node without icons is nearer, and else on its nearest node; no other
\* node receives a parking icon.
C24_ParkingConsolidation ==
    AmenitiesAdded =>
        LET parking == {k \in 1..Len(AmenityElems) : CategoryOf(AmenityElems[k]) = "parking"}
            Target(e) ==
                IF IconNodesInReach(e) # {}
                THEN {i \in IconNodesInReach(e) :
                         \A j \in IconNodesInReach(e) :
                            Dist2(e.pos, features[i].coordinates)
                               <= Dist2(e.pos, features[j].coordinates)}
                ELSE {i \in PointIdx(features) :
                         Dist2(e.pos, features[i].coordinates) = NearDist2(prev, e)}
        IN  /\ \A k \in parking :
                  IsPlaced(AmenityElems[k]) =>
                      \E i \in Target(AmenityElems[k]) : "{P}" \in IconsIn(LabelOf(features[i]))
            /\ \A i \in NewParkingNodes :
                  \E k \in parking : IsPlaced(AmenityElems[k]) /\ i \in Target(AmenityElems[k])

\* The parking lot came first in the answer; its icon is on y2, 3 units
\* away, together with the water and toilets icons, and y1, at the place
\* of the parking lot, shows no icon.
C24_Witness ==
    /\ AmenitiesAdded
    /\ am_elems = <<Parking206, Water203, Toilets204>>
    /\ \E i \in PointIdx(features) :
          /\ features[i].coordinates = <<10, 9>>
          /\ IconsIn(LabelOf(features[i])) = {"{WC}", "{water}", "{P}"}
    /\ \E i \in PointIdx(features) :
          /\ features[i].coordinates = Parking206.pos
          /\ IconsIn(LabelOf(features[i])) = {}

----------------------------------------------------------------------------
(* Properties of the Overpass queries (checked under SpecOverpass) *)

\* The mirrors that were sent query q, in the order of the requests.
MirrorsAsked(q) ==
    LET sel == SelectSeq(requests, LAMBDA r : r.query = q)
    IN  [k \in 1..Len(sel) |-> sel[k].mirror]

\* The first mirror that answers, or 0 when every mirror fails.
FirstAnswer(resp) ==
    IF \A k \in 1..Len(resp) : resp[k] = "error" THEN 0
    ELSE CHOOSE k \in 1..Len(resp) : resp[k] # "error" /\ \A m \in 1..(k - 1) : resp[m] = "error"

\* What the first answering mirror of resp returns when the area holds elems
AnswerOf(resp, elems) == IF resp[FirstAnswer(resp)] = "ok" THEN elems ELSE <<>>

\* C25: a query is sent to the mirrors in the configured order up to the
\* first one that answers, and to all of them when none answers; when none
\* answers, add_trailheads and add_amenities return the graph as it was and
\* main() goes on with the next pass; when one answers, the pass works
\* with the answer of the first mirror that gave one.
C25_UpstreamFailure ==
    /\ pc \in {"normalize_labels", "merge_nearby_endpoints", "add_amenities", "filter_nodes", "done"} =>
          MirrorsAsked("trailheads") =
              [k \in 1..(IF FirstAnswer(overpass[1]) = 0 THEN NumMirrors
                         ELSE FirstAnswer(overpass[1])) |-> k]
    /\ pc = "normalize_labels" =>
          IF FirstAnswer(overpass[1]) = 0 THEN features = prev
          ELSE features = add_trailheads(prev, AnswerOf(overpass[1], th_elems))
    /\ pc \in {"filter_nodes", "done"} =>
          MirrorsAsked("amenities") =
              [k \in 1..(IF FirstAnswer(overpass[2]) = 0 THEN NumMirrors
                         ELSE FirstAnswer(overpass[2])) |-> k]
    /\ pc = "filter_nodes" =>
          IF FirstAnswer(overpass[2]) = 0 THEN features = prev /\ am_placed = <<>>
          ELSE features = add_amenities(prev, AnswerOf(overpass[2], am_elems))
    /\ pc \in {"merge_rail", "add_trailheads"} => MirrorsAsked("trailheads") = <<>>
    /\ pc \notin {"filter_nodes", "done"} => MirrorsAsked("amenities") = <<>>

\* main() has ended although every mirror failed for the trailhead query;
\* the amenity query was answered by the third mirror after two failures,
\* and the answer changed the graph.
C25_Witness ==
    /\ pc = "done"
    /\ overpass[1] = AllMirrors("error")
    /\ overpass[2] = <<"error", "error", "ok">>
    /\ Len(requests) = 2 * NumMirrors
    /\ \A i \in PointIdx(features) : ~StartsWithTh(IdOf(features[i]))
    /\ \E i \in PointIdx(features) : IconsIn(LabelOf(features[i])) # {}

----------------------------------------------------------------------------
(* Properties of download_osm_data (checked under SpecDownload) *)

\* The first attempt that is answered with status 200, or 0.
First200 ==
    IF \A k \in 1..dl.max_retries : dl.responses[k] # "200" THEN 0
    ELSE CHOOSE k \in 1..dl.max_retries :
             dl.responses[k] = "200" /\ \A m \in 1..(k - 1) : dl.responses[m] # "200"

\* C26: download_osm_data never sends more than max_retries requests; it
\* sends one request after another while the answer is a 429, another
\* status, a timeout or a network error, stops at the first 200, saves the
\* data and returns True (the IOError of a failed save is passed on), and
\* returns False after max_retries requests without a 200.
C26_RetryProtocol ==
    /\ dl.sent <= dl.max_retries
    /\ dl.sent = dl.attempt
    /\ pc = "dl_loop" =>
          /\ dl.result = ""
          /\ \A k \in 1..dl.sent : dl.responses[k] # "200"
    /\ pc = "dl_done" =>
          IF First200 = 0
          THEN dl.result = "False" /\ dl.sent = dl.max_retries /\ ~dl.saved
          ELSE /\ dl.sent = First200
               /\ dl.osm_data
               /\ dl.saved = dl.disk_ok
               /\ dl.result = IF dl.disk_ok THEN "True" ELSE "IOError"
    /\ (pc = "dl_done" /\ dl.max_retries >= 2 /\ dl.disk_ok
          /\ dl.responses[1] = "429" /\ dl.responses[2] = "200") => dl.result = "True"
    /\ (pc = "dl_done" /\ \A k \in 1..dl.max_retries : dl.responses[k] = "500")
          => dl.result = "False"

\* A 429 followed by a 200: two of three requests were sent, the data is
\* saved and the result is True.
C26_Witness ==
    /\ pc = "dl_done"
    /\ dl.max_retries = 3
    /\ dl.responses[1] = "429" /\ dl.responses[2] = "200"
    /\ dl.sent = 2
    /\ dl.saved
    /\ dl.result = "True"

----------------------------------------------------------------------------
(* Properties of parse_osm_xml (checked under SpecParse) *)

\* The ways of the file that have a name tag and at least two coordinates.
NamedWays ==
    SelectSeq(parsed.ways, LAMBDA w : "name" \in DOMAIN w.tags /\ Len(WayCoords(w)) >= 2)

\* C27: the trails of a parsed file are its ways that have a name tag and
\* at least two coordinates, in file order; a way without a name or with
\* fewer than two coordinates is no trail.
C27_OnlyNamedWays ==
    (pc = "px_done" /\ parsed.file = "ok") =>
        /\ Len(parsed.trails) = Len(NamedWays)
        /\ \A k \in 1..Len(NamedWays) :
              /\ parsed.trails[k].id = NamedWays[k].id
              /\ parsed.trails[k].name = NamedWays[k].tags.name
              /\ Len(parsed.trails[k].coordinates) >= 2

----------------------------------------------------------------------------
(* Properties of the pipeline, continued (checked under Spec) *)

\* The graph when pass 1 of merge_nearby_endpoints has ended.
AfterPass1 == MergePass1(prev, prev, endpoints(prev), 1, {}, <<>>)[1]

\* C28: in pass 1 of merge_nearby_endpoints no endpoint is merged into a
\* node that an earlier merge of the pass has hidden; when the pass has
\* ended every node that received a merge is labelled or a rail station;
\* of two labelled degree-1 endpoints of different trails within
\* ENDPOINT_MERGE_DIST of each other at most one is hidden.
C28_TargetsLive ==
    pc = "add_amenities" =>
        /\ \A k, m \in Pass1Merges : k < m => merge_log[m].into # merge_log[k].node
        /\ \A k \in Pass1Merges : Targetable(PointOf(AfterPass1, merge_log[k].into))
        /\ \A i, j \in PointIdx(prev) :
              (/\ i # j
               /\ HasLabel(prev[i]) /\ HasLabel(prev[j])
               /\ node_deg(prev, IdOf(prev[i])) = 1 /\ node_deg(prev, IdOf(prev[j])) = 1
               /\ node_lines(prev, IdOf(prev[i])) \cap node_lines(prev, IdOf(prev[j])) = {}
               /\ Dist2(prev[i].coordinates, prev[j].coordinates) <= Sq(ENDPOINT_MERGE_DIST))
                  => ~(Hidden(AfterPass1[i]) /\ Hidden(AfterPass1[j]))

\* C29: when add_amenities has ended, every node whose label shows an icon
\* has a non-empty label and a non-empty station_id, and a node that had no
\* label before the pass has its own id as station_id.
C29_IconNodesAreStations ==
    AmenitiesAdded =>
        \A i \in PointIdx(features) :
            IconsIn(LabelOf(features[i])) # {} =>
                /\ HasLabel(features[i])
                /\ StationId(features[i]) # <<>>
                /\ ~HasLabel(prev[i]) => StationId(features[i]) = IdOf(features[i])

\* The elements add_trailheads worked with: the answer of the first mirror
\* that gave one, none when every mirror failed.
TrailheadAnswer ==
    IF FirstAnswer(overpass[1]) = 0 THEN <<>> ELSE AnswerOf(overpass[1], th_elems)

\* The named elements of the answer whose nearest node before the pass is
\* node i, less than TRAILHEAD_MATCH_DIST away.
MatchesOf(i) ==
    {k \in 1..Len(TrailheadAnswer) :
        LET e == TrailheadAnswer[k]
            d == Dist2(e.pos, prev[i].coordinates)
        IN  /\ Len(Get(e.tags, "name", <<>>)) > 0
            /\ d < Sq(TRAILHEAD_MATCH_DIST)
            /\ \A j \in PointIdx(prev) :
                  LET dj == Dist2(e.pos, prev[j].coordinates)
                  IN  dj > d \/ (dj = d /\ j >= i)}

TrailheadMatches(i) == {k \in MatchesOf(i) : ~is_parking(TrailheadAnswer[k])}
ParkingMatches(i) == {k \in MatchesOf(i) : is_parking(TrailheadAnswer[k])}

\* p and q agree on every key but has_parking
SameButParking(p, q) ==
    /\ DOMAIN p \ {"has_parking"} = DOMAIN q \ {"has_parking"}
    /\ \A key \in DOMAIN p \ {"has_parking"} : p[key] = q[key]

\* The edges of the graph before the pass that are gone after it.
SplitEdges == {e \in LineIdx(prev) : \A j \in LineIdx(features) : features[j] # prev[e]}

\* The nodes after the pass that sit between two halves of the edge e.
MidNodes(e) ==
    {j \in PointIdx(features) :
        \E a, b \in LineIdx(features) :
            /\ features[a].properties.from = prev[e].properties.from
            /\ features[a].properties.to = IdOf(features[j])
            /\ features[b].properties.from = IdOf(features[j])
            /\ features[b].properties.to = prev[e].properties.to
            /\ features[a].coordinates[Len(features[a].coordinates)] = features[j].coordinates
            /\ features[b].coordinates[1] = features[j].coordinates}

\* C30: after add_trailheads, a node that had a non-empty station_label
\* keeps every property it had (label, station_id, node_type and priority
\* included), has_parking alone may have been set; an unlabelled node
\* matched by a tagged trailhead carries the name of the first such
\* trailhead of the answer, whatever parking lots match it too; and every
\* edge that is gone was replaced by exactly two halves around one new node.
C30_LabelsNeverOverwritten ==
    pc = "normalize_labels" =>
        /\ \A i \in PointIdx(prev) :
              Len(LabelOf(prev[i])) > 0 =>
                  /\ IsPoint(features[i])
                  /\ features[i].coordinates = prev[i].coordinates
                  /\ SameButParking(prev[i].properties, features[i].properties)
                  /\ "has_parking" \in DOMAIN features[i].properties =>
                        \/ "has_parking" \in DOMAIN prev[i].properties
                              /\ features[i].properties.has_parking = prev[i].properties.has_parking
                        \/ features[i].properties.has_parking = TRUE /\ ParkingMatches(i) # {}
        /\ \A i \in PointIdx(prev) :
              (Len(LabelOf(prev[i])) = 0 /\ TrailheadMatches(i) # {}) =>
                  LabelOf(features[i]) = TrailheadAnswer[Min(TrailheadMatches(i))].tags.name
        /\ Len(features) = Len(prev) + 2 * Cardinality(SplitEdges)
        /\ \A e \in SplitEdges : Cardinality(MidNodes(e)) = 1

\* An answer with the parking lot before the trailhead of the same
\* unlabelled node, a parking lot matched to a labelled node, and two
\* unmatched elements nearest to the same edge, which was split.
C30_Witness ==
    /\ pc = "normalize_labels"
    /\ \E i \in PointIdx(prev) :
          /\ Len(LabelOf(prev[i])) = 0
          /\ \E k \in ParkingMatches(i) : k < Min(TrailheadMatches(i) \cup {Len(TrailheadAnswer) + 1})
          /\ TrailheadMatches(i) # {}
          /\ Get(features[i].properties, "has_parking", FALSE) = TRUE
    /\ \E i \in PointIdx(prev) :
          /\ Len(LabelOf(prev[i])) > 0
          /\ ParkingMatches(i) # {}
          /\ "has_parking" \notin DOMAIN prev[i].properties
          /\ Get(features[i].properties, "has_parking", FALSE) = TRUE
    /\ \E e \in SplitEdges :
          \E k1, k2 \in 1..Len(TrailheadAnswer) :
              /\ k1 # k2
              /\ \A k \in {k1, k2} :
                    /\ \A i \in PointIdx(prev) : k \notin MatchesOf(i)
                    /\ LET r == nearest_edge(TrailheadAnswer[k].pos, prev, TRAILHEAD_INSERT_DIST)
                       IN  Len(r) > 0 /\ r[1] = e

====
